---- MODULE Spec2Model ----
(***************************************************************************)
(* Model of the WebRTC signaling core of src-tauri/src/lib.rs:             *)
(* SignalingServerState (the session registry), SignalingMessage and       *)
(* handle_websocket_stream (the per-connection pump: recv_task, send_task  *)
(* and the select! that joins them), with the command that starts the     *)
(* server (start_signaling_server_cmd) and the clipboard history           *)
(* (ClipboardDatabase).                                                    *)
(*                                                                         *)
(* Granularity: one step per critical section of the std::sync::Mutex      *)
(* around the session table and one step per send on a connection's own    *)
(* tx; the code between two such points touches only task-local variables. *)
(* ShareSession.created_at is a wall-clock stamp that no operation reads;  *)
(* it is left out.                                                         *)
(*                                                                         *)
(* Specifications:                                                         *)
(*   Spec          the inbound loops, clients sending joins, offers,       *)
(*                 answers and candidates, every connection open           *)
(*   SpecFrames    the inbound loops with every kind of item delivered     *)
(*   SpecPump      the whole of handle_websocket_stream: inbound loop,     *)
(*                 outbound loop, Close, write errors and the select!      *)
(*   SpecPumpFair  SpecPump with the tasks scheduled fairly                *)
(*   SpecRegistry  calls made directly on a fresh SignalingServerState     *)
(*   SpecCodes     create_session alone, over a wider set of draws         *)
(*   SpecLock      registry calls of concurrent tasks, the acquisition of  *)
(*                 the table's mutex being a step of its own               *)
(*   SpecArms      the inbound loops with a step for each acquisition and  *)
(*                 each release of the table's mutex, scheduled fairly     *)
(*   SpecStart     concurrent calls of start_signaling_server_cmd and the  *)
(*                 server task the first of them spawns                    *)
(*   SpecClipboard calls on a ClipboardDatabase made by new(max_items)     *)
(***************************************************************************)
EXTENDS Integers, Sequences, FiniteSets, TLC

\* ---------------------------------------------------------------- bounds
\* frames the transports deliver to the inbound loops (Spec)
MaxFrames == 4
\* frames delivered when every kind of item is delivered (SpecFrames)
MaxItems == 3
\* frames delivered when the tasks are scheduled fairly (SpecPumpFair)
MaxFairFrames == 2
\* frames delivered to the inbound loops that take the lock step by step
\* (SpecArms)
MaxArmFrames == 3
\* registry calls the concurrent tasks start (SpecLock)
MaxLockCalls == 3
\* frames delivered when the outbound loops and the teardown run (SpecPump)
MaxPumpFrames == 3
\* calls made on the registry when it is driven directly (SpecRegistry)
MaxCalls == 4
\* calls of start_signaling_server_cmd (SpecStart)
MaxStartCalls == 3
\* the largest max_items a ClipboardDatabase is made with (SpecClipboard)
MaxCapacity == 2
\* the largest access_count the calls on the database drive an entry to
MaxAccess == 2

\* the accepted connections (one handle_websocket_stream each)
Conns == {1, 2, 3}

\* ------------------------------------------------------- session codes
\* the modulus of create_session
CodeModulus == 16777216

\* values uuid::Uuid::new_v4().as_u128() is drawn from; 1 and 16777217
\* differ as 128-bit values and agree modulo CodeModulus
Uuids == {1, 2, 16777217}

HexDigit(d) == SubSeq("0123456789ABCDEF", d + 1, d + 1)

RECURSIVE UpperHex(_)
\* {:X}: uppercase hexadecimal without padding
UpperHex(n) == IF n < 16 THEN HexDigit(n)
               ELSE UpperHex(n \div 16) \o HexDigit(n % 16)

RECURSIVE ZeroPad(_, _)
\* {:0w}: left-pad with "0" up to width w, never truncate
ZeroPad(s, w) == IF Len(s) < w THEN ZeroPad("0" \o s, w) ELSE s

\* variant of FormatCode: {:X}, no width
FormatCode_unpadded(u) == UpperHex(u % CodeModulus)

\* format!("{:06X}", u % 16777216)
FormatCode(u) == ZeroPad(UpperHex(u % CodeModulus), 6)

\* the codes a client can have been told out of band
Codes == {FormatCode(u) : u \in Uuids}

\* ------------------------------------------------------------ messages
\* Option::None of a handle, and JSON null / Option::None of a value
NoHandle == 0
Null == "null"
\* no SignalingMessage (a parse error, or no message in hand)
NoMsg == [variant |-> "None"]
\* no text in hand
NoText == [type |-> "none"]

\* the two codes of the model, in the order of Uuids
Code1 == FormatCode(1)
Code2 == FormatCode(2)

\* Text frames as JSON objects: a function from field names to values.
JoinFrames == {[type |-> "join", code |-> k, role |-> r] :
                   k \in Codes, r \in {"sharer", "viewer"}}
\* a join whose role is neither of the two the Join arm knows
OtherRoleFrames == {[type |-> "join", code |-> Code1, role |-> "admin"]}
OfferFrames == {[type |-> "offer", code |-> Code1, sdp |-> d, sdpType |-> "offer"] :
                   d \in {"sdpA", "sdpB"}}
\* an offer object with a field the enum does not declare
OfferExtraFrames == {[type |-> "offer", code |-> Code1, sdp |-> "sdpA",
                      sdpType |-> "offer", extra |-> "x"]}
AnswerFrames == {[type |-> "answer", code |-> Code1, sdp |-> "sdpC", sdpType |-> "answer"]}
\* an offer and an answer that name Code2
Code2OfferFrames == {[type |-> "offer", code |-> Code2, sdp |-> "sdpA", sdpType |-> "offer"]}
Code2AnswerFrames == {[type |-> "answer", code |-> Code2, sdp |-> "sdpC",
                       sdpType |-> "answer"]}
\* the pages send candidate, sdp_mid and sdp_m_line_index; the two Option
\* fields may be absent. The frame for Code1 also carries a "role" field,
\* which the IceCandidate variant does not declare.
IceFrames == {[type |-> "ice-candidate", code |-> Code1, candidate |-> "cand",
               role |-> "sharer"],
              [type |-> "ice-candidate", code |-> Code2, candidate |-> "cand"]}
ErrorFrames == {[type |-> "error", message |-> "oops"]}
ViewerJoinedFrames == {[type |-> "viewer-joined", code |-> Code1]}
\* text that is no SignalingMessage: unknown tag, or a required field missing
BadFrames == {[type |-> "hello"], [type |-> "offer", code |-> Code1]}

Has(f, fields) == fields \subseteq DOMAIN f
Opt(f, field) == IF field \in DOMAIN f THEN f[field] ELSE Null

\* serde_json::from_str::<SignalingMessage>: internally tagged by "type"
\* through the serde renames, required fields must be present, Option
\* fields default to None, fields the variant does not declare are ignored
ParseMsg(f) ==
    CASE f.type = "join" /\ Has(f, {"code", "role"}) ->
            [variant |-> "Join", code |-> f.code, role |-> f.role]
      [] f.type = "offer" /\ Has(f, {"code", "sdp", "sdpType"}) ->
            [variant |-> "Offer", code |-> f.code, sdp |-> f.sdp, sdp_type |-> f.sdpType]
      [] f.type = "answer" /\ Has(f, {"code", "sdp", "sdpType"}) ->
            [variant |-> "Answer", code |-> f.code, sdp |-> f.sdp, sdp_type |-> f.sdpType]
      [] f.type = "ice-candidate" /\ Has(f, {"code", "candidate"}) ->
            [variant |-> "IceCandidate", code |-> f.code, candidate |-> f.candidate,
             sdp_mid |-> Opt(f, "sdp_mid"),
             sdp_m_line_index |-> Opt(f, "sdp_m_line_index")]
      [] f.type = "error" /\ Has(f, {"message"}) ->
            [variant |-> "Error", message |-> f.message]
      [] f.type = "viewer-joined" /\ Has(f, {"code"}) ->
            [variant |-> "ViewerJoined", code |-> f.code]
      [] OTHER -> NoMsg

\* serde_json::to_string(&SignalingMessage): the renamed tag and every
\* declared field of the variant, None written as null
ToJson(m) ==
    CASE m.variant = "Join" ->
            [type |-> "join", code |-> m.code, role |-> m.role]
      [] m.variant = "Offer" ->
            [type |-> "offer", code |-> m.code, sdp |-> m.sdp, sdpType |-> m.sdp_type]
      [] m.variant = "Answer" ->
            [type |-> "answer", code |-> m.code, sdp |-> m.sdp, sdpType |-> m.sdp_type]
      [] m.variant = "IceCandidate" ->
            [type |-> "ice-candidate", code |-> m.code, candidate |-> m.candidate,
             sdp_mid |-> m.sdp_mid, sdp_m_line_index |-> m.sdp_m_line_index]
      [] m.variant = "Error" ->
            [type |-> "error", message |-> m.message]
      [] m.variant = "ViewerJoined" ->
            [type |-> "viewer-joined", code |-> m.code]

\* serde_json::json!({"type": "joined", "code": .., "role": ..})
JoinedText(k, r) == [type |-> "joined", code |-> k, role |-> r]
\* the error objects of the two Join arms
SharerErrorText(k) == [type |-> "error", message |-> "Session not found for code: " \o k]
ViewerErrorText == [type |-> "error", message |-> "Session not found"]

\* --------------------------------------------------------------- state
VARIABLES
    sessions,   \* SignalingServerState.sessions: code -> ShareSession
    seen,       \* connections 1..seen have had a frame read
    budget,     \* frames the transports will still deliver
    mutex,      \* the task that holds the Mutex of `sessions`, if any
    inop,       \* the registry operation each task has called and not left
    rpc,        \* recv_task: position of each connection's inbound loop
    code,       \* recv_task: `code` (Option<String>)
    role,       \* recv_task: `role` (Option<String>)
    sig_msg,    \* recv_task: the message being handled
    msg_str,    \* recv_task: the serialized pending offer about to be sent
    queue,      \* the unbounded channel behind tx / rx
    rxopen,     \* rx has not been dropped
    spc,        \* send_task: position of each connection's outbound loop
    wire,       \* what the outbound loop has written to the transport
    sel,        \* the select! of handle_websocket_stream
    enq,        \* history: every item enqueued to a queue, with the handle used
    nstored,    \* history: how many times a pending offer was stored, per code
    hist,       \* history: what each connection's last Join or Offer found
    calls,      \* history: the results of direct calls on the registry
    skipped,    \* history: the last item a loop read and did nothing with
    server_state, \* the managed Mutex<Option<Arc<SignalingServerState>>>
    server_task,  \* the task that runs start_signaling_server
    starter,      \* the calls of start_signaling_server_cmd: position, result
    made,         \* history: registries and sessions the command has created
    items,      \* ClipboardDatabase.items
    max_items,  \* ClipboardDatabase.max_items
    dbop        \* history: the last call on the database and what it found

lockVars == <<mutex, inop>>
cmdVars == <<server_state, server_task, starter, made>>
dbVars == <<items, max_items, dbop>>
appVars == <<cmdVars, dbVars>>
envVars == <<seen, budget, lockVars, skipped, appVars>>
recvVars == <<rpc, code, role, sig_msg, msg_str>>
chanVars == <<queue, rxopen, enq>>
sendVars == <<spc, wire, sel>>

vars == <<sessions, envVars, recvVars, chanVars, sendVars, nstored, hist, calls>>

NoHist == [kind |-> "none"]
NoOp == [name |-> "none"]

\* the calls of start_signaling_server_cmd
Starters == 1..MaxStartCalls
NoResult == [kind |-> "none"]
NotCalled == [pc |-> "idle", ret |-> NoResult, code |-> Null, saw |-> "none"]
\* None in the managed Option
NoRegistry == [some |-> FALSE]

\* ShareSession { code, sharer: None, viewers: Vec::new(), pending_offer: None }
NewSession(k) == [code |-> k, sharer |-> NoHandle, viewers |-> <<>>, pending_offer |-> NoMsg]

\* HashMap::insert: the entry for k is placed, or replaced
MapInsert(map, k, v) == [x \in DOMAIN map \cup {k} |-> IF x = k THEN v ELSE map[x]]

\* HashMap::new()
EmptyMap == [k \in {} |-> NoMsg]

\* handle_websocket_stream up to the select!, for every connection: the
\* socket is split, the channel created, send_task and recv_task spawned;
\* no frame has been read and no message sent
Idle ==
    /\ seen = 0
    /\ mutex = NoHandle
    /\ inop = [c \in Conns |-> NoOp]
    /\ rpc = [c \in Conns |-> "next"]
    /\ code = [c \in Conns |-> Null]
    /\ role = [c \in Conns |-> Null]
    /\ sig_msg = [c \in Conns |-> NoMsg]
    /\ msg_str = [c \in Conns |-> NoText]
    /\ queue = [c \in Conns |-> <<>>]
    /\ spc = [c \in Conns |-> "recv"]
    /\ wire = [c \in Conns |-> <<>>]
    /\ sel = [c \in Conns |-> "waiting"]
    /\ rxopen = [c \in Conns |-> TRUE]
    /\ enq = [c \in Conns |-> <<>>]
    /\ nstored = [k \in Codes |-> 0]
    /\ hist = [c \in Conns |-> NoHist]
    /\ calls = <<>>
    /\ skipped = [conn |-> NoHandle, item |-> NoText]
    /\ server_state = NoRegistry
    /\ server_task = "none"
    /\ starter = [t \in Starters |-> NotCalled]
    /\ made = [registries |-> 0, sessions |-> 0]
    /\ items = <<>>
    /\ max_items = 0
    /\ dbop = NoOp

\* The server is running and the connections have been upgraded. The
\* registry holds the session that start_signaling_server_cmd created
\* (Code2 is then the code of no session), or the two sessions that two
\* calls of create_session leave in it.
Init ==
    /\ Idle
    /\ sessions \in {MapInsert(EmptyMap, Code1, NewSession(Code1)),
                     MapInsert(MapInsert(EmptyMap, Code1, NewSession(Code1)),
                               Code2, NewSession(Code2))}
    /\ budget = MaxFrames

\* ------------------------------------------------------------ registry
HasSession(k) == k \in DOMAIN sessions

\* create_session: draw, format, insert, return the code
create_session(u) == sessions' = MapInsert(sessions, FormatCode(u), NewSession(FormatCode(u)))

\* variant of add_sharer: a session is made for a code that has none
add_sharer_or_insert(k, h) ==
    sessions' = IF k \in DOMAIN sessions
                THEN [sessions EXCEPT ![k].sharer = h]
                ELSE MapInsert(sessions, k, [NewSession(k) EXCEPT !.sharer = h])

\* variant of add_sharer: a slot that is taken keeps its handle
add_sharer_keep_first(k, h) ==
    sessions' = IF k \in DOMAIN sessions /\ sessions[k].sharer = NoHandle
                THEN [sessions EXCEPT ![k].sharer = h]
                ELSE sessions

\* add_sharer: overwrite the sharer slot of an existing session
add_sharer(k, h) ==
    sessions' = IF HasSession(k) THEN [sessions EXCEPT ![k].sharer = h] ELSE sessions

\* variant of add_viewer: a session is made for a code that has none
add_viewer_or_insert(k, h) ==
    sessions' = IF k \in DOMAIN sessions
                THEN [sessions EXCEPT ![k].viewers = Append(@, h)]
                ELSE MapInsert(sessions, k, [NewSession(k) EXCEPT !.viewers = <<h>>])

\* variant of add_viewer: viewers are taken once a sharer is attached
add_viewer_after_sharer(k, h) ==
    sessions' = IF k \in DOMAIN sessions /\ sessions[k].sharer # NoHandle
                THEN [sessions EXCEPT ![k].viewers = Append(@, h)]
                ELSE sessions

\* add_viewer: push onto the viewer list of an existing session
add_viewer(k, h) ==
    sessions' = IF HasSession(k) THEN [sessions EXCEPT ![k].viewers = Append(@, h)]
                ELSE sessions

\* variant of store_pending_offer: an offer already cached is kept
store_pending_offer_if_empty(k, m) ==
    /\ sessions' = IF k \in DOMAIN sessions /\ sessions[k].pending_offer = NoMsg
                   THEN [sessions EXCEPT ![k].pending_offer = m]
                   ELSE sessions
    /\ nstored' = IF k \in DOMAIN sessions THEN [nstored EXCEPT ![k] = @ + 1] ELSE nstored

\* the Offer arm between lock() and drop(sessions): session.pending_offer = Some(..)
store_pending_offer(k, m) ==
    /\ sessions' = IF HasSession(k) THEN [sessions EXCEPT ![k].pending_offer = m]
                   ELSE sessions
    /\ nstored' = IF HasSession(k) THEN [nstored EXCEPT ![k] = @ + 1] ELSE nstored

\* session.pending_offer as the viewer arm reads it
PendingOffer(k) == IF HasSession(k) THEN sessions[k].pending_offer ELSE NoMsg

\* variant of ViewerHandles: the viewers of every session, whatever the code
ViewerHandles_any(k) ==
    (IF Code1 \in DOMAIN sessions THEN sessions[Code1].viewers ELSE <<>>)
    \o (IF Code2 \in DOMAIN sessions THEN sessions[Code2].viewers ELSE <<>>)

\* the handles broadcast_to_viewers iterates over
ViewerHandles(k) == IF HasSession(k) THEN sessions[k].viewers ELSE <<>>

\* variant of SharerHandles: the sharer and the viewers of the session
SharerHandles_all(k) ==
    IF k \in DOMAIN sessions
    THEN (IF sessions[k].sharer # NoHandle THEN <<sessions[k].sharer>> ELSE <<>>)
         \o sessions[k].viewers
    ELSE <<>>

\* the handle send_to_sharer sends on, if any
SharerHandles(k) == IF HasSession(k) /\ sessions[k].sharer # NoHandle
                    THEN <<sessions[k].sharer>> ELSE <<>>

\* variant of ChannelSend: the item is kept for a receiver that is gone
ChannelSend_always(q, h, item) == [q EXCEPT ![h] = Append(@, item)]

\* UnboundedSender::send: appends unless the receiver has been dropped
ChannelSend(q, h, item) == IF rxopen[h] THEN [q EXCEPT ![h] = Append(@, item)] ELSE q

RECURSIVE SendEach_stop(_, _, _)
\* variant of SendEach: the loop ends at the first send that fails
SendEach_stop(q, hs, item) ==
    IF hs = <<>> \/ ~rxopen[Head(hs)] THEN q
    ELSE SendEach_stop(ChannelSend(q, Head(hs), item), Tail(hs), item)

RECURSIVE SendEach(_, _, _)
\* one send per handle of hs, in order, whatever the result of each
SendEach(q, hs, item) ==
    IF hs = <<>> THEN q
    ELSE SendEach(ChannelSend(q, Head(hs), item), Tail(hs), item)

Entry(text, via, from) == [text |-> text, via |-> via, from |-> from]

\* broadcast_to_viewers(code, message) called by connection `from`
broadcast_to_viewers(from, k, m) ==
    /\ queue' = SendEach(queue, ViewerHandles(k), ToJson(m))
    /\ enq' = SendEach(enq, ViewerHandles(k), Entry(ToJson(m), "viewer", from))

\* send_to_sharer(code, message) called by connection `from`
send_to_sharer(from, k, m) ==
    /\ queue' = SendEach(queue, SharerHandles(k), ToJson(m))
    /\ enq' = SendEach(enq, SharerHandles(k), Entry(ToJson(m), "sharer", from))

\* the value send_to_sharer returns: the session exists, it has a sharer
\* and sharer.send(..).is_ok()
SendToSharerResult(k) ==
    /\ SharerHandles(k) # <<>>
    /\ rxopen[Head(SharerHandles(k))]

\* tx.send(text) on the connection's own sender
send_own(c, text) ==
    /\ queue' = ChannelSend(queue, c, text)
    /\ enq' = ChannelSend(enq, c, Entry(text, "own", c))

\* ------------------------------------------------------------ recv_task
\* receiver.next().await yields an item to a loop that is waiting for one.
\* Connections are numbered in the order in which their first frame is
\* read: a connection that has sent nothing is known to no other task.
CanRead(c) == rpc[c] = "next" /\ budget > 0 /\ c <= seen + 1

\* history record written when connection c starts handling message m: how
\* many frames were still to be read, the length of c's log and the pending
\* offer of the session that m names
Found(c, m) ==
    [kind |-> m.variant, msg |-> m, left |-> budget, base |-> Len(enq[c]),
     pend |-> (IF m.code \in DOMAIN sessions THEN sessions[m.code].pending_offer
               ELSE NoMsg),
     nstored |-> nstored[m.code]]

Read(c) ==
    /\ budget' = budget - 1
    /\ seen' = IF c > seen THEN c ELSE seen
    /\ UNCHANGED <<lockVars, skipped, appVars>>

\* the same for an item that no arm acts on
ReadSkip(c, item) ==
    /\ budget' = budget - 1
    /\ seen' = IF c > seen THEN c ELSE seen
    /\ skipped' = [conn |-> c, item |-> item]
    /\ UNCHANGED <<lockVars, appVars>>

\* the Join arm up to and including add_sharer / add_viewer
RecvJoin(c, f) ==
    LET m == ParseMsg(f) IN
    /\ CanRead(c)
    /\ m.variant = "Join"
    /\ Read(c)
    /\ hist' = [hist EXCEPT ![c] = Found(c, m)]
    /\ code' = [code EXCEPT ![c] = m.code]
    /\ role' = [role EXCEPT ![c] = m.role]
    /\ IF m.role = "sharer"
         THEN /\ add_sharer(m.code, c)
              /\ rpc' = [rpc EXCEPT ![c] = IF HasSession(m.code) THEN "sharer_ack"
                                           ELSE "sharer_err"]
              /\ sig_msg' = [sig_msg EXCEPT ![c] = m]
       ELSE IF m.role = "viewer"
         THEN /\ add_viewer(m.code, c)
              /\ rpc' = [rpc EXCEPT ![c] = IF HasSession(m.code) THEN "viewer_ack"
                                           ELSE "viewer_err"]
              /\ sig_msg' = [sig_msg EXCEPT ![c] = m]
         ELSE UNCHANGED <<sessions, rpc, sig_msg>>
    /\ UNCHANGED <<msg_str, chanVars, sendVars, nstored, calls>>

\* a step of the Join arm that sends `text` on the connection's own tx
OwnSend(c, at, text, to) ==
    /\ rpc[c] = at
    /\ send_own(c, text)
    /\ rpc' = [rpc EXCEPT ![c] = to]
    /\ sig_msg' = [sig_msg EXCEPT ![c] = IF to = "next" THEN NoMsg ELSE @]
    /\ msg_str' = [msg_str EXCEPT ![c] = IF to = "next" THEN NoText ELSE @]
    /\ UNCHANGED <<sessions, envVars, code, role, rxopen, sendVars, nstored, hist, calls>>

\* sharer arm, add_sharer returned true: the joined acknowledgment
SharerAck(c) == OwnSend(c, "sharer_ack", JoinedText(sig_msg[c].code, "sharer"), "next")

\* sharer arm, add_sharer returned false: the error object
SharerErr(c) == OwnSend(c, "sharer_err", SharerErrorText(sig_msg[c].code), "next")

\* variant of ViewerAck: the arm goes on without the acknowledgment
ViewerAck_silent(c) ==
    /\ rpc[c] = "viewer_ack"
    /\ rpc' = [rpc EXCEPT ![c] = "notify"]
    /\ UNCHANGED <<sessions, envVars, code, role, sig_msg, msg_str, chanVars, sendVars,
                   nstored, hist, calls>>

\* viewer arm, add_viewer returned true: the joined acknowledgment
ViewerAck(c) == OwnSend(c, "viewer_ack", JoinedText(sig_msg[c].code, "viewer"), "notify")

\* viewer arm, add_viewer returned false: the error object
ViewerErr(c) == OwnSend(c, "viewer_err", ViewerErrorText, "next")

\* variant of NotifySharer: the notification goes to the viewers as well
NotifySharer_and_viewers(c) ==
    LET m == [variant |-> "ViewerJoined", code |-> sig_msg[c].code] IN
    /\ rpc[c] = "notify"
    /\ queue' = SendEach(queue, SharerHandles(m.code) \o ViewerHandles(m.code), ToJson(m))
    /\ enq' = SendEach(enq, SharerHandles(m.code) \o ViewerHandles(m.code),
                       Entry(ToJson(m), "sharer", c))
    /\ rpc' = [rpc EXCEPT ![c] = "check"]
    /\ UNCHANGED <<sessions, envVars, code, role, sig_msg, msg_str, rxopen, sendVars,
                   nstored, hist, calls>>

\* viewer arm: send_to_sharer(&join_code, &ViewerJoined { code })
NotifySharer(c) ==
    /\ rpc[c] = "notify"
    /\ send_to_sharer(c, sig_msg[c].code, [variant |-> "ViewerJoined", code |-> sig_msg[c].code])
    /\ rpc' = [rpc EXCEPT ![c] = "check"]
    /\ UNCHANGED <<sessions, envVars, code, role, sig_msg, msg_str, rxopen, sendVars,
                   nstored, hist, calls>>

\* variant of CheckPendingOffer: the cache is never looked at
CheckPendingOffer_never(c) ==
    /\ rpc[c] = "check"
    /\ rpc' = [rpc EXCEPT ![c] = "next"]
    /\ sig_msg' = [sig_msg EXCEPT ![c] = NoMsg]
    /\ UNCHANGED <<sessions, envVars, code, role, msg_str, chanVars, sendVars, nstored,
                   hist, calls>>

\* viewer arm: lock the table, look for a pending offer, serialize it
CheckPendingOffer(c) ==
    LET offer == PendingOffer(sig_msg[c].code) IN
    /\ rpc[c] = "check"
    /\ IF offer # NoMsg
         THEN /\ msg_str' = [msg_str EXCEPT ![c] = ToJson(offer)]
              /\ rpc' = [rpc EXCEPT ![c] = "replay"]
              /\ UNCHANGED sig_msg
         ELSE /\ rpc' = [rpc EXCEPT ![c] = "next"]
              /\ sig_msg' = [sig_msg EXCEPT ![c] = NoMsg]
              /\ UNCHANGED msg_str
    /\ UNCHANGED <<sessions, envVars, code, role, chanVars, sendVars, nstored, hist, calls>>

\* variant of ReplayOffer: the serialized offer is dropped, not sent
ReplayOffer_drop(c) ==
    /\ rpc[c] = "replay"
    /\ rpc' = [rpc EXCEPT ![c] = "next"]
    /\ sig_msg' = [sig_msg EXCEPT ![c] = NoMsg]
    /\ msg_str' = [msg_str EXCEPT ![c] = NoText]
    /\ UNCHANGED <<sessions, envVars, code, role, chanVars, sendVars, nstored, hist, calls>>

\* viewer arm: the lock is dropped, the pending offer goes to the own tx
ReplayOffer(c) == OwnSend(c, "replay", msg_str[c], "next")

\* the Offer arm up to drop(sessions): store the pending offer
RecvOffer(c, f) ==
    LET m == ParseMsg(f) IN
    /\ CanRead(c)
    /\ m.variant = "Offer"
    /\ Read(c)
    /\ hist' = [hist EXCEPT ![c] = Found(c, m)]
    /\ store_pending_offer(m.code, m)
    /\ sig_msg' = [sig_msg EXCEPT ![c] = m]
    /\ rpc' = [rpc EXCEPT ![c] = "broadcast"]
    /\ UNCHANGED <<code, role, msg_str, chanVars, sendVars, calls>>

\* the Offer arm: broadcast_to_viewers(msg_code, &sig_msg)
BroadcastOffer(c) ==
    /\ rpc[c] = "broadcast"
    /\ broadcast_to_viewers(c, sig_msg[c].code, sig_msg[c])
    /\ rpc' = [rpc EXCEPT ![c] = "next"]
    /\ sig_msg' = [sig_msg EXCEPT ![c] = NoMsg]
    /\ UNCHANGED <<sessions, envVars, code, role, msg_str, rxopen, sendVars, nstored,
                   hist, calls>>

\* variant of RecvAnswer: the answer is broadcast to the viewers
RecvAnswer_broadcast(c, f) ==
    LET m == ParseMsg(f) IN
    /\ CanRead(c)
    /\ m.variant = "Answer"
    /\ Read(c)
    /\ broadcast_to_viewers(c, m.code, m)
    /\ UNCHANGED <<sessions, recvVars, rxopen, sendVars, nstored, hist, calls>>

\* the Answer arm: send_to_sharer(msg_code, &sig_msg)
RecvAnswer(c, f) ==
    LET m == ParseMsg(f) IN
    /\ CanRead(c)
    /\ m.variant = "Answer"
    /\ Read(c)
    /\ send_to_sharer(c, m.code, m)
    /\ UNCHANGED <<sessions, recvVars, rxopen, sendVars, nstored, hist, calls>>

\* variant of RecvIceCandidate: the two directions exchanged
RecvIceCandidate_swapped(c, f) ==
    LET m == ParseMsg(f) IN
    /\ CanRead(c)
    /\ m.variant = "IceCandidate"
    /\ Read(c)
    /\ IF role[c] = Null THEN UNCHANGED <<queue, enq>>
       ELSE IF role[c] = "sharer" THEN send_to_sharer(c, m.code, m)
       ELSE broadcast_to_viewers(c, m.code, m)
    /\ UNCHANGED <<sessions, recvVars, rxopen, sendVars, nstored, hist, calls>>

\* the IceCandidate arm: the direction depends on the recorded role
RecvIceCandidate(c, f) ==
    LET m == ParseMsg(f) IN
    /\ CanRead(c)
    /\ m.variant = "IceCandidate"
    /\ Read(c)
    /\ IF role[c] = Null THEN UNCHANGED <<queue, enq>>
       ELSE IF role[c] = "sharer" THEN broadcast_to_viewers(c, m.code, m)
       ELSE send_to_sharer(c, m.code, m)
    /\ UNCHANGED <<sessions, recvVars, rxopen, sendVars, nstored, hist, calls>>

\* variant of RecvNoop: a ViewerJoined read from a client is passed on to
\* the sharer of the session it names
RecvNoop_relay(c, f) ==
    LET m == ParseMsg(f) IN
    /\ CanRead(c)
    /\ m.variant \in {"Error", "ViewerJoined"}
    /\ ReadSkip(c, f)
    /\ IF m.variant = "ViewerJoined" THEN send_to_sharer(c, m.code, m)
       ELSE UNCHANGED <<queue, enq>>
    /\ UNCHANGED <<sessions, recvVars, rxopen, sendVars, nstored, hist, calls>>

\* the Error and ViewerJoined arms: empty
RecvNoop(c, f) ==
    /\ CanRead(c)
    /\ ParseMsg(f).variant \in {"Error", "ViewerJoined"}
    /\ ReadSkip(c, f)
    /\ UNCHANGED <<sessions, recvVars, chanVars, sendVars, nstored, hist, calls>>

\* variant of RecvUnparseable: the sender is told that its text was refused
RecvUnparseable_reply(c, f) ==
    /\ CanRead(c)
    /\ ParseMsg(f) = NoMsg
    /\ ReadSkip(c, f)
    /\ send_own(c, ViewerErrorText)
    /\ UNCHANGED <<sessions, recvVars, rxopen, sendVars, nstored, hist, calls>>

\* the Err arm of serde_json::from_str: the text is logged and dropped
RecvUnparseable(c, f) ==
    /\ CanRead(c)
    /\ ParseMsg(f) = NoMsg
    /\ ReadSkip(c, f)
    /\ UNCHANGED <<sessions, recvVars, chanVars, sendVars, nstored, hist, calls>>

\* what receiver.next() yields besides a text frame and Close: Binary,
\* Ping, Pong, and Err(e) of the transport
OtherItems == {[type |-> "Binary"], [type |-> "ReadError"]}

\* `_ => {}`: the loop goes on to the next item
RecvOther(c, item) ==
    /\ CanRead(c)
    /\ ReadSkip(c, item)
    /\ UNCHANGED <<sessions, recvVars, chanVars, sendVars, nstored, hist, calls>>

\* -------------------------------------------------------- specification
RecvStep(c) ==
    \/ \E f \in JoinFrames : RecvJoin(c, f)
    \/ SharerAck(c)
    \/ SharerErr(c)
    \/ ViewerAck(c)
    \/ ViewerErr(c)
    \/ NotifySharer(c)
    \/ CheckPendingOffer(c)
    \/ ReplayOffer(c)
    \/ \E f \in OfferFrames \cup OfferExtraFrames : RecvOffer(c, f)
    \/ BroadcastOffer(c)
    \/ \E f \in AnswerFrames : RecvAnswer(c, f)
    \/ \E f \in IceFrames : RecvIceCandidate(c, f)

\* the inbound loops of the accepted connections, every connection open,
\* the clients sending joins, offers, answers and candidates
Next == \E c \in Conns : RecvStep(c)

Spec == Init /\ [][Next]_vars

\* what else a client can send: a join with another role, relay messages
\* naming Code2, messages only the server sends, text that does not parse,
\* items that are no text frame
ItemStep(c) ==
    \/ RecvStep(c)
    \/ \E f \in OtherRoleFrames : RecvJoin(c, f)
    \/ \E f \in Code2OfferFrames : RecvOffer(c, f)
    \/ \E f \in Code2AnswerFrames : RecvAnswer(c, f)
    \/ \E f \in ErrorFrames \cup ViewerJoinedFrames : RecvNoop(c, f)
    \/ \E f \in BadFrames : RecvUnparseable(c, f)
    \/ \E item \in OtherItems : RecvOther(c, item)

InitFrames ==
    /\ Idle
    /\ sessions \in {MapInsert(EmptyMap, Code1, NewSession(Code1)),
                     MapInsert(MapInsert(EmptyMap, Code1, NewSession(Code1)),
                               Code2, NewSession(Code2))}
    /\ budget = MaxItems

NextFrames == \E c \in Conns : ItemStep(c)

\* the inbound loops with every kind of item delivered
SpecFrames == InitFrames /\ [][NextFrames]_vars

\* ------------------------------------------- send_task and the select!
\* variant of SendTaskWrite: the item enqueued last is written first
SendTaskWrite_last(c) ==
    /\ spc[c] = "recv"
    /\ queue[c] # <<>>
    /\ queue' = [queue EXCEPT ![c] = SubSeq(@, 1, Len(@) - 1)]
    /\ wire' = [wire EXCEPT ![c] = Append(@, queue[c][Len(queue[c])])]
    /\ UNCHANGED <<sessions, envVars, recvVars, rxopen, enq, spc, sel, nstored, hist, calls>>

\* send_task: rx.recv() yields the head of the queue, sender.send writes it
SendTaskWrite(c) ==
    /\ spc[c] = "recv"
    /\ queue[c] # <<>>
    /\ queue' = [queue EXCEPT ![c] = Tail(@)]
    /\ wire' = [wire EXCEPT ![c] = Append(@, Head(queue[c]))]
    /\ UNCHANGED <<sessions, envVars, recvVars, rxopen, enq, spc, sel, nstored, hist, calls>>

\* send_task is over: rx is dropped with whatever it still holds
DropSendTask(c) ==
    /\ spc' = [spc EXCEPT ![c] = "done"]
    /\ rxopen' = [rxopen EXCEPT ![c] = FALSE]
    /\ queue' = [queue EXCEPT ![c] = <<>>]

\* send_task: sender.send(msg) fails, the loop breaks
SendTaskWriteErr(c) ==
    /\ spc[c] = "recv"
    /\ queue[c] # <<>>
    /\ DropSendTask(c)
    /\ UNCHANGED <<sessions, envVars, recvVars, enq, wire, sel, nstored, hist, calls>>

\* some clone of the connection's tx is held by the session table
Registered(c) ==
    \E k \in DOMAIN sessions :
        sessions[k].sharer = c \/ \E i \in 1..Len(sessions[k].viewers) : sessions[k].viewers[i] = c

\* send_task: rx.recv() yields None, every sender being dropped (recv_task
\* is over and the table holds no clone) and the queue empty
SendTaskClosed(c) ==
    /\ spc[c] = "recv"
    /\ queue[c] = <<>>
    /\ rpc[c] = "done"
    /\ ~Registered(c)
    /\ DropSendTask(c)
    /\ UNCHANGED <<sessions, envVars, recvVars, enq, wire, sel, nstored, hist, calls>>

\* recv_task: a Close frame breaks the loop, or the stream ends
RecvClose(c) ==
    /\ CanRead(c)
    /\ Read(c)
    /\ rpc' = [rpc EXCEPT ![c] = "done"]
    /\ UNCHANGED <<sessions, code, role, sig_msg, msg_str, chanVars, sendVars, nstored,
                   hist, calls>>

\* select!: recv_task finished first, send_task is aborted
SelectRecvDone(c) ==
    /\ sel[c] = "waiting"
    /\ rpc[c] = "done"
    /\ sel' = [sel EXCEPT ![c] = "returned"]
    /\ DropSendTask(c)
    /\ UNCHANGED <<sessions, envVars, recvVars, enq, wire, nstored, hist, calls>>

\* variant of SelectSendDone: the handler returns, recv_task is left running
SelectSendDone_no_abort(c) ==
    /\ sel[c] = "waiting"
    /\ spc[c] = "done"
    /\ rpc[c] \in {"next", "done"}
    /\ sel' = [sel EXCEPT ![c] = "returned"]
    /\ UNCHANGED <<sessions, envVars, recvVars, chanVars, spc, wire, nstored, hist, calls>>

\* variant of SelectSendDone: the handles of the connection are taken out
\* of the table when its handler returns
SelectSendDone_cleanup(c) ==
    /\ sel[c] = "waiting"
    /\ spc[c] = "done"
    /\ rpc[c] \in {"next", "done"}
    /\ sel' = [sel EXCEPT ![c] = "returned"]
    /\ rpc' = [rpc EXCEPT ![c] = "done"]
    /\ sessions' = [k \in DOMAIN sessions |->
                      [sessions[k] EXCEPT
                         !.sharer = IF @ = c THEN NoHandle ELSE @,
                         !.viewers = SelectSeq(@, LAMBDA v : v # c)]]
    /\ UNCHANGED <<envVars, code, role, sig_msg, msg_str, chanVars, spc, wire,
                   nstored, hist, calls>>

\* select!: send_task finished first, recv_task is aborted; the abort takes
\* effect where the task awaits, at receiver.next()
SelectSendDone(c) ==
    /\ sel[c] = "waiting"
    /\ spc[c] = "done"
    /\ rpc[c] \in {"next", "done"}
    /\ sel' = [sel EXCEPT ![c] = "returned"]
    /\ rpc' = [rpc EXCEPT ![c] = "done"]
    /\ UNCHANGED <<sessions, envVars, code, role, sig_msg, msg_str, chanVars, spc, wire,
                   nstored, hist, calls>>

PumpStep(c) ==
    \/ ItemStep(c)
    \/ RecvClose(c)
    \/ SendTaskWrite(c)
    \/ SendTaskWriteErr(c)
    \/ SendTaskClosed(c)
    \/ SelectRecvDone(c)
    \/ SelectSendDone(c)

InitPump ==
    /\ Idle
    /\ sessions \in {MapInsert(EmptyMap, Code1, NewSession(Code1)),
                     MapInsert(MapInsert(EmptyMap, Code1, NewSession(Code1)),
                               Code2, NewSession(Code2))}
    /\ budget = MaxPumpFrames

NextPump == \E c \in Conns : PumpStep(c)

\* the whole of handle_websocket_stream for every connection
SpecPump == InitPump /\ [][NextPump]_vars

\* recv_task between two awaits: the steps of a handler that has read its
\* frame
HandlerStep(c) ==
    \/ SharerAck(c)
    \/ SharerErr(c)
    \/ ViewerAck(c)
    \/ ViewerErr(c)
    \/ NotifySharer(c)
    \/ CheckPendingOffer(c)
    \/ ReplayOffer(c)
    \/ BroadcastOffer(c)

\* the runtime polls a task that can run: a handler goes on to its next
\* await, and the select! is woken when one of its two tasks has finished.
\* Nothing is assumed of the clients or of the transports.
Fairness ==
    \A c \in Conns :
        /\ WF_vars(HandlerStep(c))
        /\ WF_vars(SelectRecvDone(c))
        /\ WF_vars(SelectSendDone(c))

InitPumpFair ==
    /\ Idle
    /\ sessions \in {MapInsert(EmptyMap, Code1, NewSession(Code1)),
                     MapInsert(MapInsert(EmptyMap, Code1, NewSession(Code1)),
                               Code2, NewSession(Code2))}
    /\ budget = MaxFairFrames

\* handle_websocket_stream for every connection, the tasks scheduled fairly
SpecPumpFair == InitPumpFair /\ [][NextPump]_vars /\ Fairness

\* ------------------------------------------------- the registry alone
\* SignalingServerState::new(): an empty table, nothing else running
InitRegistry ==
    /\ Idle
    /\ sessions = EmptyMap
    /\ budget = 0

CanCall == Len(calls) < MaxCalls

Returned(op, result) == calls' = Append(calls, [op |-> op, result |-> result])

\* state.create_session() with the draw u: the code is returned
CallCreateSession(u) ==
    /\ CanCall
    /\ create_session(u)
    /\ Returned("create_session", FormatCode(u))
    /\ UNCHANGED <<envVars, recvVars, chanVars, sendVars, nstored, hist>>

\* state.add_sharer(k, tx of connection h): true iff the session exists
CallAddSharer(k, h) ==
    /\ CanCall
    /\ add_sharer(k, h)
    /\ Returned("add_sharer", HasSession(k))
    /\ UNCHANGED <<envVars, recvVars, chanVars, sendVars, nstored, hist>>

\* state.add_viewer(k, tx of connection h): true iff the session exists
CallAddViewer(k, h) ==
    /\ CanCall
    /\ add_viewer(k, h)
    /\ Returned("add_viewer", HasSession(k))
    /\ UNCHANGED <<envVars, recvVars, chanVars, sendVars, nstored, hist>>

\* the message the direct relay calls are given
NotifyMsg(k) == [variant |-> "ViewerJoined", code |-> k]

\* state.send_to_sharer(k, &NotifyMsg(k)): the bool it returns
CallSendToSharer(k) ==
    /\ CanCall
    /\ send_to_sharer(NoHandle, k, NotifyMsg(k))
    /\ Returned("send_to_sharer", SendToSharerResult(k))
    /\ UNCHANGED <<sessions, envVars, recvVars, rxopen, sendVars, nstored, hist>>

\* state.broadcast_to_viewers(k, &NotifyMsg(k)): returns ()
CallBroadcastToViewers(k) ==
    /\ CanCall
    /\ broadcast_to_viewers(NoHandle, k, NotifyMsg(k))
    /\ Returned("broadcast_to_viewers", "unit")
    /\ UNCHANGED <<sessions, envVars, recvVars, rxopen, sendVars, nstored, hist>>

NextRegistry ==
    \/ \E u \in Uuids : CallCreateSession(u)
    \/ \E k \in Codes, h \in Conns : CallAddSharer(k, h)
    \/ \E k \in Codes, h \in Conns : CallAddViewer(k, h)
    \/ \E k \in Codes : CallSendToSharer(k)
    \/ \E k \in Codes : CallBroadcastToViewers(k)

\* calls made on a fresh SignalingServerState, one after the other
SpecRegistry == InitRegistry /\ [][NextRegistry]_vars

\* values of as_u128() that exercise the format: no digit, one digit, a
\* letter digit, several digits, six letter digits, the largest six-digit
\* value, the modulus and values above it. The reduction keeps the low 24
\* bits, so a value below 2^31 stands for every 128-bit value that has
\* the same low 24 bits.
Draws == {0, 9, 10, 255, 4096, 11259375, 16777215, 16777216, 16777226, 2147483647}

NextCodes == \E u \in Draws : CallCreateSession(u)

\* create_session called again and again on a fresh SignalingServerState
SpecCodes == InitRegistry /\ [][NextCodes]_vars

\* ------------------------------------------- the lock of the registry
\* the operations that begin with self.sessions.lock().unwrap()
LockOps == {"add_sharer", "add_viewer", "send_to_sharer", "broadcast_to_viewers"}

\* two sessions have been created, no connection has joined
InitLock ==
    /\ Idle
    /\ sessions = MapInsert(MapInsert(EmptyMap, Code1, NewSession(Code1)),
                            Code2, NewSession(Code2))
    /\ budget = 0

\* task t calls operation o for code k and reaches self.sessions.lock()
LockCall(t, o, k) ==
    /\ inop[t] = NoOp
    /\ Len(calls) + Cardinality({u \in Conns : inop[u] # NoOp}) < MaxLockCalls
    /\ inop' = [inop EXCEPT ![t] = [name |-> o, code |-> k]]
    /\ UNCHANGED <<sessions, seen, budget, skipped, appVars, mutex, recvVars, chanVars, sendVars, nstored,
                   hist, calls>>

\* Mutex::lock returns to task t: no task holds the guard of `sessions`
LockAcquire(t) ==
    /\ inop[t] # NoOp
    /\ mutex = NoHandle
    /\ mutex' = t
    /\ UNCHANGED <<sessions, seen, budget, skipped, appVars, inop, recvVars, chanVars, sendVars, nstored,
                   hist, calls>>

\* task t, holding the guard, runs the body of its operation and returns;
\* the guard is dropped
LockRun(t) ==
    LET o == inop[t].name
        k == inop[t].code IN
    /\ mutex = t
    /\ IF o = "add_sharer"
         THEN add_sharer(k, t) /\ Returned(o, HasSession(k)) /\ UNCHANGED <<queue, enq>>
       ELSE IF o = "add_viewer"
         THEN add_viewer(k, t) /\ Returned(o, HasSession(k)) /\ UNCHANGED <<queue, enq>>
       ELSE IF o = "send_to_sharer"
         THEN /\ send_to_sharer(t, k, NotifyMsg(k))
              /\ Returned(o, SendToSharerResult(k))
              /\ UNCHANGED sessions
         ELSE /\ broadcast_to_viewers(t, k, NotifyMsg(k))
              /\ Returned(o, "unit")
              /\ UNCHANGED sessions
    /\ mutex' = NoHandle
    /\ inop' = [inop EXCEPT ![t] = NoOp]
    /\ UNCHANGED <<seen, budget, skipped, appVars, recvVars, rxopen, sendVars, nstored, hist>>

NextLock ==
    \/ \E t \in Conns, o \in LockOps, k \in Codes : LockCall(t, o, k)
    \/ \E t \in Conns : LockAcquire(t)
    \/ \E t \in Conns : LockRun(t)

\* tasks calling the registry concurrently
SpecLock == InitLock /\ [][NextLock]_vars

\* ------------------------------------- the arms of recv_task, lock by lock
\* where a handler is about to call self.sessions.lock()
LockPoints == {"lock_add_sharer", "lock_add_viewer", "notify", "check", "lock_store",
               "broadcast", "lock_answer", "lock_ice"}

\* where a handler is between lock() and the drop of the guard
HoldPoints == {"in_add_sharer", "in_add_viewer", "in_notify", "in_check", "in_store",
               "in_broadcast", "in_answer", "in_ice", "drop_check", "end_check",
               "drop_store"}

\* the position a handler has once lock() has returned
Inside(at) ==
    CASE at = "lock_add_sharer" -> "in_add_sharer"
      [] at = "lock_add_viewer" -> "in_add_viewer"
      [] at = "notify" -> "in_notify"
      [] at = "check" -> "in_check"
      [] at = "lock_store" -> "in_store"
      [] at = "broadcast" -> "in_broadcast"
      [] at = "lock_answer" -> "in_answer"
      [] at = "lock_ice" -> "in_ice"

\* the first registry access of the arm that handles m on connection c
ArmEntry(c, m) ==
    CASE m.variant = "Join" ->
            (IF m.role = "sharer" THEN "lock_add_sharer"
             ELSE IF m.role = "viewer" THEN "lock_add_viewer" ELSE "next")
      [] m.variant = "Offer" -> "lock_store"
      [] m.variant = "Answer" -> "lock_answer"
      [] m.variant = "IceCandidate" -> (IF role[c] = Null THEN "next" ELSE "lock_ice")

\* receiver.next().await yields a text frame that parses; the Join arm
\* records code and role; the arm is entered
ArmRead(c, f) ==
    LET m == ParseMsg(f) IN
    /\ CanRead(c)
    /\ m.variant \in {"Join", "Offer", "Answer", "IceCandidate"}
    /\ Read(c)
    /\ code' = [code EXCEPT ![c] = IF m.variant = "Join" THEN m.code ELSE @]
    /\ role' = [role EXCEPT ![c] = IF m.variant = "Join" THEN m.role ELSE @]
    /\ rpc' = [rpc EXCEPT ![c] = ArmEntry(c, m)]
    /\ sig_msg' = [sig_msg EXCEPT ![c] = IF ArmEntry(c, m) = "next" THEN NoMsg ELSE m]
    /\ UNCHANGED <<sessions, msg_str, chanVars, sendVars, nstored, hist, calls>>

\* self.sessions.lock() returns to the handler of c: no task holds the guard
ArmLock(c) ==
    /\ rpc[c] \in LockPoints
    /\ mutex = NoHandle
    /\ mutex' = c
    /\ rpc' = [rpc EXCEPT ![c] = Inside(rpc[c])]
    /\ UNCHANGED <<sessions, seen, budget, inop, skipped, appVars, code, role, sig_msg, msg_str,
                   chanVars, sendVars, nstored, hist, calls>>

\* add_sharer / add_viewer under the guard; the guard is dropped at return
ArmAdd(c) ==
    LET k == sig_msg[c].code IN
    /\ rpc[c] \in {"in_add_sharer", "in_add_viewer"}
    /\ mutex = c
    /\ IF rpc[c] = "in_add_sharer"
         THEN /\ add_sharer(k, c)
              /\ rpc' = [rpc EXCEPT ![c] = IF HasSession(k) THEN "sharer_ack"
                                           ELSE "sharer_err"]
         ELSE /\ add_viewer(k, c)
              /\ rpc' = [rpc EXCEPT ![c] = IF HasSession(k) THEN "viewer_ack"
                                           ELSE "viewer_err"]
    /\ mutex' = NoHandle
    /\ UNCHANGED <<seen, budget, inop, skipped, appVars, code, role, sig_msg, msg_str, chanVars,
                   sendVars, nstored, hist, calls>>

\* send_to_sharer / broadcast_to_viewers under the guard; the guard is
\* dropped at return
ArmRelay(c) ==
    LET m == sig_msg[c] IN
    /\ rpc[c] \in {"in_notify", "in_broadcast", "in_answer", "in_ice"}
    /\ mutex = c
    /\ IF rpc[c] = "in_notify"
         THEN send_to_sharer(c, m.code, [variant |-> "ViewerJoined", code |-> m.code])
       ELSE IF rpc[c] = "in_broadcast" \/ (rpc[c] = "in_ice" /\ role[c] = "sharer")
         THEN broadcast_to_viewers(c, m.code, m)
         ELSE send_to_sharer(c, m.code, m)
    /\ mutex' = NoHandle
    /\ rpc' = [rpc EXCEPT ![c] = IF rpc[c] = "in_notify" THEN "check" ELSE "next"]
    /\ sig_msg' = [sig_msg EXCEPT ![c] = IF rpc[c] = "in_notify" THEN @ ELSE NoMsg]
    /\ UNCHANGED <<sessions, seen, budget, inop, skipped, appVars, code, role, msg_str, rxopen,
                   sendVars, nstored, hist, calls>>

\* the handler's own critical sections: the Offer arm stores the offer,
\* the viewer arm looks for a pending offer and serializes it; the guard is
\* a local of the handler and is still held
ArmTable(c) ==
    LET m == sig_msg[c] IN
    /\ rpc[c] \in {"in_store", "in_check"}
    /\ mutex = c
    /\ IF rpc[c] = "in_store"
         THEN /\ store_pending_offer(m.code, m)
              /\ rpc' = [rpc EXCEPT ![c] = "drop_store"]
              /\ UNCHANGED msg_str
         ELSE /\ msg_str' = [msg_str EXCEPT ![c] = IF PendingOffer(m.code) # NoMsg
                                                   THEN ToJson(PendingOffer(m.code)) ELSE @]
              /\ rpc' = [rpc EXCEPT ![c] = IF PendingOffer(m.code) # NoMsg
                                           THEN "drop_check" ELSE "end_check"]
              /\ UNCHANGED <<sessions, nstored>>
    /\ UNCHANGED <<envVars, code, role, sig_msg, chanVars, sendVars, hist, calls>>

\* variant of ArmDrop: the handler goes on with the guard still alive
ArmDrop_forgotten(c) ==
    /\ rpc[c] \in {"drop_store", "drop_check", "end_check"}
    /\ mutex = c
    /\ rpc' = [rpc EXCEPT ![c] = IF rpc[c] = "drop_store" THEN "broadcast"
                                 ELSE IF rpc[c] = "drop_check" THEN "replay" ELSE "next"]
    /\ sig_msg' = [sig_msg EXCEPT ![c] = IF rpc[c] = "end_check" THEN NoMsg ELSE @]
    /\ UNCHANGED <<sessions, envVars, code, role, msg_str, chanVars, sendVars, nstored,
                   hist, calls>>

\* drop(sessions) in the Offer arm and in the viewer arm, or the end of the
\* block that owns the guard when no offer is pending
ArmDrop(c) ==
    /\ rpc[c] \in {"drop_store", "drop_check", "end_check"}
    /\ mutex = c
    /\ mutex' = NoHandle
    /\ rpc' = [rpc EXCEPT ![c] = IF rpc[c] = "drop_store" THEN "broadcast"
                                 ELSE IF rpc[c] = "drop_check" THEN "replay" ELSE "next"]
    /\ sig_msg' = [sig_msg EXCEPT ![c] = IF rpc[c] = "end_check" THEN NoMsg ELSE @]
    /\ UNCHANGED <<sessions, seen, budget, inop, skipped, appVars, code, role, msg_str, chanVars,
                   sendVars, nstored, hist, calls>>

\* the sends on the connection's own tx, made without the guard
ArmSend(c) ==
    \/ SharerAck(c)
    \/ SharerErr(c)
    \/ ViewerAck(c)
    \/ ViewerErr(c)
    \/ ReplayOffer(c)

\* recv_task between two awaits, lock by lock
ArmStep(c) ==
    \/ ArmLock(c)
    \/ ArmAdd(c)
    \/ ArmRelay(c)
    \/ ArmTable(c)
    \/ ArmDrop(c)
    \/ ArmSend(c)

InitArms ==
    /\ Idle
    /\ sessions \in {MapInsert(EmptyMap, Code1, NewSession(Code1)),
                     MapInsert(MapInsert(EmptyMap, Code1, NewSession(Code1)),
                               Code2, NewSession(Code2))}
    /\ budget = MaxArmFrames

NextArms ==
    \E c \in Conns :
        \/ \E f \in JoinFrames \cup OfferFrames \cup AnswerFrames \cup IceFrames : ArmRead(c, f)
        \/ ArmStep(c)

\* the runtime polls a task that can run, and no handler holds the guard
\* across an await: a handler that can take a step takes it. Nothing is
\* assumed of the clients.
FairArms == \A c \in Conns : WF_vars(ArmStep(c))

\* the inbound loops, every acquisition and release of the mutex a step
SpecArms == InitArms /\ [][NextArms]_vars /\ FairArms

\* ------------------------------------- start_signaling_server_cmd
Ok(v) == [kind |-> "Ok", value |-> v]
Err(v) == [kind |-> "Err", value |-> v]
AlreadyRunning == Err("Signaling server is already running")

\* the call that holds the guard `server_state` of the managed mutex: the
\* guard lives from state.lock() to the return
HoldsState(t) == starter[t].pc \in {"check", "create", "store", "spawn", "return"}

StartUnchanged == UNCHANGED <<seen, budget, lockVars, skipped, dbVars, recvVars, chanVars,
                              sendVars, nstored, hist, calls>>

\* the command is invoked: call t reaches state.lock()
StartCall(t) ==
    /\ starter[t].pc = "idle"
    /\ starter' = [starter EXCEPT ![t].pc = "lock", ![t].saw = server_task]
    /\ UNCHANGED <<sessions, server_state, server_task, made>>
    /\ StartUnchanged

\* state.lock() returns to call t: no other call holds the guard
StartLock(t) ==
    /\ starter[t].pc = "lock"
    /\ \A u \in Starters : ~HoldsState(u)
    /\ starter' = [starter EXCEPT ![t].pc = "check"]
    /\ UNCHANGED <<sessions, server_state, server_task, made>>
    /\ StartUnchanged

\* variant of StartCheck: a server whose task has failed or exited counts
\* as not running
StartCheck_restart(t) ==
    /\ starter[t].pc = "check"
    /\ starter' = [starter EXCEPT ![t] =
                      IF server_state.some /\ server_task \notin {"failed", "exited"}
                      THEN [@ EXCEPT !.pc = "done", !.ret = AlreadyRunning]
                      ELSE [@ EXCEPT !.pc = "create"]]
    /\ UNCHANGED <<sessions, server_state, server_task, made>>
    /\ StartUnchanged

\* if server_state.is_some() { return Err(..) }: the guard is dropped by
\* the return
StartCheck(t) ==
    /\ starter[t].pc = "check"
    /\ starter' = [starter EXCEPT ![t] =
                      IF server_state.some
                      THEN [@ EXCEPT !.pc = "done", !.ret = AlreadyRunning]
                      ELSE [@ EXCEPT !.pc = "create"]]
    /\ UNCHANGED <<sessions, server_state, server_task, made>>
    /\ StartUnchanged

\* Arc::new(SignalingServerState::new()) and signaling_state.create_session()
StartCreate(t, u) ==
    /\ starter[t].pc = "create"
    /\ sessions' = MapInsert(EmptyMap, FormatCode(u), NewSession(FormatCode(u)))
    /\ made' = [registries |-> made.registries + 1, sessions |-> made.sessions + 1]
    /\ starter' = [starter EXCEPT ![t].pc = "store", ![t].code = FormatCode(u)]
    /\ UNCHANGED <<server_state, server_task>>
    /\ StartUnchanged

\* *server_state = Some(signaling_state.clone())
StartStore(t) ==
    /\ starter[t].pc = "store"
    /\ server_state' = [some |-> TRUE, registry |-> made.registries]
    /\ starter' = [starter EXCEPT ![t].pc = "spawn"]
    /\ UNCHANGED <<sessions, server_task, made>>
    /\ StartUnchanged

\* tokio::spawn of the task that runs start_signaling_server(.., 8765)
StartSpawn(t) ==
    /\ starter[t].pc = "spawn"
    /\ server_task' = "spawned"
    /\ starter' = [starter EXCEPT ![t].pc = "return"]
    /\ UNCHANGED <<sessions, server_state, made>>
    /\ StartUnchanged

\* Ok(code): the guard is dropped
StartReturn(t) ==
    /\ starter[t].pc = "return"
    /\ starter' = [starter EXCEPT ![t].pc = "done", ![t].ret = Ok(starter[t].code)]
    /\ UNCHANGED <<sessions, server_state, server_task, made>>
    /\ StartUnchanged

\* start_signaling_server: TcpListener::bind succeeds and axum::serve runs
TaskBind ==
    /\ server_task = "spawned"
    /\ server_task' = "listening"
    /\ UNCHANGED <<sessions, server_state, starter, made>>
    /\ StartUnchanged

\* TcpListener::bind fails: the error is printed and the task ends
TaskBindFails ==
    /\ server_task = "spawned"
    /\ server_task' = "failed"
    /\ UNCHANGED <<sessions, server_state, starter, made>>
    /\ StartUnchanged

\* axum::serve returns: the task ends
TaskExits ==
    /\ server_task = "listening"
    /\ server_task' = "exited"
    /\ UNCHANGED <<sessions, server_state, starter, made>>
    /\ StartUnchanged

\* the application has been set up (the managed state holds None) and no
\* command has been invoked
InitStart ==
    /\ Idle
    /\ sessions = EmptyMap
    /\ budget = 0

NextStart ==
    \/ \E t \in Starters : StartCall(t)
    \/ \E t \in Starters : StartLock(t)
    \/ \E t \in Starters : StartCheck(t)
    \/ \E t \in Starters : \E u \in Uuids : StartCreate(t, u)
    \/ \E t \in Starters : StartStore(t)
    \/ \E t \in Starters : StartSpawn(t)
    \/ \E t \in Starters : StartReturn(t)
    \/ TaskBind
    \/ TaskBindFails
    \/ TaskExits

\* concurrent calls of start_signaling_server_cmd
SpecStart == InitStart /\ [][NextStart]_vars

\* ------------------------------------------------- ClipboardDatabase
\* the texts the clipboard holds, the ids and the clock readings
Contents == {"a", "b", "c"}
Ids == {"id1", "id2"}
Times == {1, 2}
\* the values of max_items
Capacities == 1..MaxCapacity

\* the ClipboardItem the monitor builds; content_type, source and size are
\* read by no method of the database
ClipboardItem(id, content, t) ==
    [id |-> id, content |-> content, created_at |-> t, last_accessed |-> t,
     access_count |-> 0]

\* iter_mut().find(|i| i.content == content): the index of the first
\* match, 0 for None
FindContent(list, content) ==
    IF \E i \in 1..Len(list) : list[i].content = content
    THEN CHOOSE i \in 1..Len(list) :
            /\ list[i].content = content
            /\ \A j \in 1..(i - 1) : list[j].content # content
    ELSE 0

\* iter_mut().find(|i| i.id == id)
FindId(list, id) ==
    IF \E i \in 1..Len(list) : list[i].id = id
    THEN CHOOSE i \in 1..Len(list) :
            /\ list[i].id = id
            /\ \A j \in 1..(i - 1) : list[j].id # id
    ELSE 0

\* last_accessed = t; access_count += 1
Touch(list, i, t) ==
    [list EXCEPT ![i].last_accessed = t, ![i].access_count = list[i].access_count + 1]

\* Vec::truncate
Truncate(list, n) == IF Len(list) > n THEN SubSeq(list, 1, n) ELSE list

\* Vec::retain(|i| i.id != id)
RECURSIVE RetainOthers(_, _)
RetainOthers(list, id) ==
    IF list = <<>> THEN <<>>
    ELSE IF Head(list).id = id THEN RetainOthers(Tail(list), id)
    ELSE <<Head(list)>> \o RetainOthers(Tail(list), id)

\* variant of add_item: the item is inserted without looking for its content
add_item_always(list, cap, item) == Truncate(<<item>> \o list, cap)

\* add_item: the list it leaves
add_item(list, cap, item) ==
    LET i == FindContent(list, item.content) IN
    IF i > 0 THEN Touch(list, i, item.created_at)
    ELSE Truncate(<<item>> \o list, cap)

\* update_access with SystemTime::now() = now
update_access(list, id, now) ==
    LET i == FindId(list, id) IN
    IF i > 0 THEN Touch(list, i, now) ELSE list

delete_item(list, id) == RetainOthers(list, id)

clear_all(list) == <<>>

Constructed == dbop.name # "none"

\* no entry is driven past MaxAccess
CanTouch(list, i) == i > 0 => list[i].access_count < MaxAccess

DbUnchanged == UNCHANGED <<sessions, seen, budget, lockVars, skipped, cmdVars, recvVars,
                           chanVars, sendVars, nstored, hist, calls>>

\* ClipboardDatabase::new(n)
DbNew(n) ==
    /\ ~Constructed
    /\ items' = <<>>
    /\ max_items' = n
    /\ dbop' = [name |-> "new"]
    /\ DbUnchanged

\* db.add_item(item)
DbAddItem(id, content, t) ==
    /\ Constructed
    /\ CanTouch(items, FindContent(items, content))
    /\ items' = add_item(items, max_items, ClipboardItem(id, content, t))
    /\ dbop' = [name |-> "add_item", found |-> FindContent(items, content)]
    /\ UNCHANGED max_items
    /\ DbUnchanged

\* db.update_access(id)
DbUpdateAccess(id, now) ==
    /\ Constructed
    /\ CanTouch(items, FindId(items, id))
    /\ items' = update_access(items, id, now)
    /\ dbop' = [name |-> "update_access", found |-> FindId(items, id)]
    /\ UNCHANGED max_items
    /\ DbUnchanged

\* db.delete_item(id)
DbDeleteItem(id) ==
    /\ Constructed
    /\ items' = delete_item(items, id)
    /\ dbop' = [name |-> "delete_item", found |-> FindId(items, id)]
    /\ UNCHANGED max_items
    /\ DbUnchanged

\* db.clear_all()
DbClearAll ==
    /\ Constructed
    /\ items' = clear_all(items)
    /\ dbop' = [name |-> "clear_all"]
    /\ UNCHANGED max_items
    /\ DbUnchanged

\* no database has been constructed
InitClipboard ==
    /\ Idle
    /\ sessions = EmptyMap
    /\ budget = 0

NextClipboard ==
    \/ \E n \in Capacities : DbNew(n)
    \/ \E id \in Ids : \E content \in Contents : \E t \in Times : DbAddItem(id, content, t)
    \/ \E id \in Ids : \E now \in Times : DbUpdateAccess(id, now)
    \/ \E id \in Ids : DbDeleteItem(id)
    \/ DbClearAll

\* calls on a ClipboardDatabase made by new(max_items)
SpecClipboard == InitClipboard /\ [][NextClipboard]_vars

\* ------------------------------------------------------------- claims
\* connection c has finished the handler of its last Join or Offer
Handled(c) == rpc[c] = "next"

\* connection c's last Join or Offer was a Join as viewer that found its session
JoinedAsViewer(c) ==
    /\ hist[c].kind = "Join"
    /\ hist[c].msg.role = "viewer"
    /\ HasSession(hist[c].msg.code)

\* the entries logged for connection c since its last Join or Offer
Since(c) == SubSeq(enq[c], hist[c].base + 1, Len(enq[c]))

InSeq(x, sq) == \E i \in 1..Len(sq) : sq[i] = x

\* the JSON text of an offer with the given payload
OfferText(k, sdp, sdpType) == [type |-> "offer", code |-> k, sdp |-> sdp, sdpType |-> sdpType]

\* C1: a viewer whose Join is handled when the session already caches an
\* Offer (it was stored before the Join was read, and no Offer has been
\* stored since) has, once its Join is handled and while its connection is
\* open, that Offer in its queue with the same code, sdp and sdpType, put
\* there by its own handler from the cache and not by a broadcast.
C1_LateViewerGetsPendingOffer ==
    \A v \in Conns :
        (/\ JoinedAsViewer(v)
         /\ Handled(v)
         /\ hist[v].pend # NoMsg
         /\ nstored[hist[v].msg.code] = hist[v].nstored
         /\ rxopen[v])
        => InSeq(Entry(OfferText(hist[v].pend.code, hist[v].pend.sdp,
                                 hist[v].pend.sdp_type), "own", v), Since(v))

\* C1 witness: a viewer joined after an Offer was handled and holds it
C1_Witness ==
    \E v \in Conns :
        /\ JoinedAsViewer(v)
        /\ Handled(v)
        /\ hist[v].pend # NoMsg
        /\ nstored[hist[v].msg.code] = hist[v].nstored
        /\ InSeq(Entry(ToJson(hist[v].pend), "own", v), Since(v))

\* connection c's last Join or Offer was an Offer
SentOffer(c) == hist[c].kind = "Offer"

\* C2: when a viewer's Join and another connection's Offer for the same
\* existing session have both been handled, in whatever order their steps
\* were taken, and no other Offer has been stored for the session since,
\* the viewer's queue (while its connection is open) has been given the
\* Offer at least once, by the broadcast or from the cache.
C2_JoinOfferRaceKeepsOffer ==
    \A v \in Conns : \A s \in Conns \ {v} :
        (/\ JoinedAsViewer(v) /\ Handled(v)
         /\ SentOffer(s) /\ Handled(s)
         /\ hist[s].msg.code = hist[v].msg.code
         /\ nstored[hist[s].msg.code] = hist[s].nstored + 1
         /\ rxopen[v])
        => \E i \in 1..Len(enq[v]) : enq[v][i].text = ToJson(hist[s].msg)

\* C2 witness: the Offer was stored after the viewer was added and before
\* the viewer looked at the cache, and both handlers have finished: the
\* viewer holds the Offer from the broadcast and from the cache
C2_Witness ==
    \E v \in Conns : \E s \in Conns \ {v} :
        /\ JoinedAsViewer(v) /\ Handled(v)
        /\ SentOffer(s) /\ Handled(s)
        /\ hist[s].msg.code = hist[v].msg.code
        /\ hist[v].pend = NoMsg
        /\ InSeq(Entry(ToJson(hist[s].msg), "viewer", s), Since(v))
        /\ InSeq(Entry(ToJson(hist[s].msg), "own", v), Since(v))

\* how many times handle h occurs in the handle list sq
Count(h, sq) == Cardinality({i \in 1..Len(sq) : sq[i] = h})

\* n copies of x
Repeat(x, n) == [i \in 1..n |-> x]

\* the viewer list and the sharer slot of the session a code names
ViewersOf(k) == IF k \in DOMAIN sessions THEN sessions[k].viewers ELSE <<>>
IsSharerOf(h, k) == k \in DOMAIN sessions /\ sessions[k].sharer = h

\* the JSON text the server writes for an ICE candidate frame f
IceText(f) == [type |-> "ice-candidate", code |-> f.code, candidate |-> f.candidate,
               sdp_mid |-> Opt(f, "sdp_mid"),
               sdp_m_line_index |-> Opt(f, "sdp_m_line_index")]

\* the JSON text the server writes for an answer frame f
AnswerText(f) == [type |-> "answer", code |-> f.code, sdp |-> f.sdp, sdpType |-> f.sdpType]

\* C3: the Offer arm keeps the code, sdp and sdpType of the frame it read,
\* and when the connection that sends an Offer for session S is S's sharer,
\* the broadcast enqueues that payload, through the viewer handles, to each
\* open connection in S's viewer list and to no other connection, so not to
\* a connection that is a viewer of a different session only.
C3_OfferReachesOnlySessionViewers ==
    [][\A s \in Conns :
        /\ \A f \in OfferFrames \cup OfferExtraFrames :
              RecvOffer(s, f) =>
                  /\ sig_msg'[s].code = f.code
                  /\ sig_msg'[s].sdp = f.sdp
                  /\ sig_msg'[s].sdp_type = f.sdpType
        /\ (BroadcastOffer(s) /\ IsSharerOf(s, sig_msg[s].code)) =>
              \A v \in Conns :
                  enq'[v] = enq[v] \o
                      Repeat(Entry(OfferText(sig_msg[s].code, sig_msg[s].sdp,
                                             sig_msg[s].sdp_type), "viewer", s),
                             IF rxopen[v] THEN Count(v, ViewersOf(sig_msg[s].code)) ELSE 0)
      ]_vars

\* C3 witness: the sharer of Code1 has had its Offer broadcast; a viewer of
\* Code1 holds it, a connection that was a viewer of Code2 only when the
\* Offer was read holds no offer
C3_Witness ==
    \E s \in Conns : \E v \in Conns \ {s} : \E w \in Conns \ {s, v} :
        /\ IsSharerOf(s, Code1)
        /\ SentOffer(s) /\ Handled(s) /\ hist[s].msg.code = Code1
        /\ Count(v, ViewersOf(Code1)) = 1
        /\ Count(w, ViewersOf(Code1)) = 0 /\ Count(w, ViewersOf(Code2)) = 1
        /\ hist[w].kind = "Join" /\ hist[w].left > hist[s].left
        /\ InSeq(Entry(OfferText(Code1, hist[s].msg.sdp, "offer"), "viewer", s), enq[v])
        /\ \A i \in 1..Len(enq[w]) : enq[w][i].text.type # "offer"

\* C4: an IceCandidate read from a connection whose recorded role is sharer
\* is enqueued once per occurrence of a handle in the viewer list of the
\* session its code names (n viewers, n deliveries), through viewer handles
\* only: nothing is enqueued through a sharer handle.
C4_SharerIceToEveryViewer ==
    [][\A c \in Conns : \A f \in IceFrames :
        (RecvIceCandidate(c, f) /\ role[c] = "sharer") =>
            \A v \in Conns :
                enq'[v] = enq[v] \o
                    Repeat(Entry(IceText(f), "viewer", c),
                           IF rxopen[v] THEN Count(v, ViewersOf(f.code)) ELSE 0)
      ]_vars

\* C4 witness: two viewers are attached to Code1 and each holds the
\* sharer's candidate once; the sharer holds no candidate
C4_Witness ==
    \E c \in Conns : \E v \in Conns \ {c} : \E w \in Conns \ {c, v} :
        /\ role[c] = "sharer" /\ IsSharerOf(c, Code1)
        /\ ViewersOf(Code1) = <<v, w>>
        /\ \A x \in {v, w} :
              Count(Entry(IceText([code |-> Code1, candidate |-> "cand"]), "viewer", c),
                    enq[x]) = 1
        /\ \A i \in 1..Len(enq[c]) : enq[c][i].text.type # "ice-candidate"

\* C5: an IceCandidate read from a connection whose recorded role is viewer
\* is enqueued through the sharer handle of the session its code names, if
\* that session has one, and through no viewer handle of any session; a
\* "role" field in the frame changes nothing.
C5_ViewerIceToSharerOnly ==
    [][\A c \in Conns : \A f \in IceFrames :
        (RecvIceCandidate(c, f) /\ role[c] = "viewer") =>
            \A h \in Conns :
                enq'[h] = IF IsSharerOf(h, f.code) /\ rxopen[h]
                          THEN Append(enq[h], Entry(IceText(f), "sharer", c))
                          ELSE enq[h]
      ]_vars

\* C5 witness: a viewer of Code1 has sent a candidate whose frame says
\* role "sharer"; the sharer holds it, and a viewer of Code1 that had
\* announced itself to the sharer before does not
C5_Witness ==
    \E c \in Conns : \E h \in Conns \ {c} : \E w \in Conns \ {c, h} :
        /\ role[c] = "viewer" /\ IsSharerOf(h, Code1)
        /\ Count(c, ViewersOf(Code1)) = 1 /\ Count(w, ViewersOf(Code1)) = 1
        /\ \E i, j \in 1..Len(enq[h]) :
              /\ i < j
              /\ enq[h][i] = Entry([type |-> "viewer-joined", code |-> Code1], "sharer", w)
              /\ enq[h][j] = Entry(IceText([code |-> Code1, candidate |-> "cand"]),
                                   "sharer", c)
        /\ \A i \in 1..Len(enq[w]) : enq[w][i].text.type # "ice-candidate"

\* C6: an Answer is enqueued through the sharer handle of the session its
\* code names, if that session has one, and to no other connection and
\* through no viewer handle; the table (pending offers, viewer lists,
\* sharer slots) is unchanged.
C6_AnswerToSharerOnly ==
    [][\A c \in Conns : \A f \in AnswerFrames :
        RecvAnswer(c, f) =>
            /\ sessions' = sessions
            /\ \A h \in Conns :
                  enq'[h] = IF IsSharerOf(h, f.code) /\ rxopen[h]
                            THEN Append(enq[h], Entry(AnswerText(f), "sharer", c))
                            ELSE enq[h]
      ]_vars

\* C6 witness: a viewer of Code1 has answered; the sharer holds the answer,
\* and a viewer of Code1 that had announced itself to the sharer before
\* does not
C6_Witness ==
    \E c \in Conns : \E h \in Conns \ {c} : \E w \in Conns \ {c, h} :
        /\ IsSharerOf(h, Code1)
        /\ Count(c, ViewersOf(Code1)) = 1 /\ Count(w, ViewersOf(Code1)) = 1
        /\ \E i, j \in 1..Len(enq[h]) :
              /\ i < j
              /\ enq[h][i] = Entry([type |-> "viewer-joined", code |-> Code1], "sharer", w)
              /\ enq[h][j] = Entry([type |-> "answer", code |-> Code1, sdp |-> "sdpC",
                                    sdpType |-> "answer"], "sharer", c)
        /\ \A i \in 1..Len(enq[w]) : enq[w][i].text.type # "answer"

\* connection c has sent no Join at all
NeverJoined(c) == role[c] = Null

\* C7: while a connection has sent no Join, an Offer, Answer or IceCandidate
\* read from it changes no session and enqueues nothing to any connection,
\* and no step enqueues anything to it.
C7_NoRelayBeforeJoin ==
    [][\A c \in Conns : NeverJoined(c) =>
        /\ enq'[c] = enq[c]
        /\ (\/ \E f \in OfferFrames \cup OfferExtraFrames : RecvOffer(c, f)
            \/ BroadcastOffer(c)
            \/ \E f \in AnswerFrames : RecvAnswer(c, f)
            \/ \E f \in IceFrames : RecvIceCandidate(c, f))
           => (sessions' = sessions /\ enq' = enq)
      ]_vars

\* the entries of sq that were sent on the connection's own tx
OwnEntries(sq) == SelectSeq(sq, LAMBDA e : e.via = "own")

\* connection c's last Join or Offer was a Join as sharer or viewer whose
\* code names no session
JoinFailed(c) ==
    /\ hist[c].kind = "Join"
    /\ hist[c].msg.role \in {"sharer", "viewer"}
    /\ hist[c].msg.code \notin DOMAIN sessions

\* C8, the step: a Join as sharer or viewer whose code has no session
\* leaves the session table as it was.
C8_FailedJoinKeepsTable ==
    \A c \in Conns : \A f \in JoinFrames :
        (RecvJoin(c, f) /\ f.code \notin DOMAIN sessions) => sessions' = sessions

\* C8, the outcome: once the handler of such a Join has finished, it has
\* put exactly one message on the connection's own queue, an error object.
C8_FailedJoinOneError ==
    \A c \in Conns :
        (JoinFailed(c) /\ Handled(c) /\ rxopen[c]) =>
            /\ Len(OwnEntries(Since(c))) = 1
            /\ OwnEntries(Since(c))[1].text.type = "error"

\* C8: a Join (sharer or viewer) for a code without a session enqueues one
\* error message to the joining connection, no joined acknowledgment, and
\* leaves the session table unchanged.
C8_FailedJoin == [][C8_FailedJoinKeepsTable]_vars /\ []C8_FailedJoinOneError

\* C8 witness: a sharer Join for Code2, which has no session, was answered
\* with the error that names the code
C8_Witness ==
    \E c \in Conns :
        /\ JoinFailed(c) /\ Handled(c)
        /\ hist[c].msg.role = "sharer"
        /\ Since(c) = <<Entry([type |-> "error",
                               message |-> "Session not found for code: 000002"], "own", c)>>
        /\ DOMAIN sessions = {Code1}

\* C9, the record: a Join whose code has no session leaves the connection
\* with no recorded code and no recorded role.
C9_FailedJoinRecordsNothing ==
    \A c \in Conns : \A f \in JoinFrames :
        (RecvJoin(c, f) /\ f.code \notin DOMAIN sessions) =>
            (code'[c] = Null /\ role'[c] = Null)

\* C9, the relay: an IceCandidate read from a connection that has sent no
\* Join but ones whose code has no session is enqueued to nobody.
C9_FailedJoinRelaysNothing ==
    \A c \in Conns : \A f \in IceFrames :
        (/\ RecvIceCandidate(c, f)
         /\ JoinFailed(c)
         /\ \A k \in DOMAIN sessions :
               ~IsSharerOf(c, k) /\ Count(c, ViewersOf(k)) = 0)
        => enq' = enq

\* C9: after a Join for a code without a session the connection has no
\* recorded code or role, and a candidate it then sends, whatever code it
\* carries, is relayed to nobody.
C9_FailedJoinLeavesNoAffiliation ==
    [][C9_FailedJoinRecordsNothing /\ C9_FailedJoinRelaysNothing]_vars

\* C10: a call of create_session returns a code that was no key of the
\* table, so no code is returned twice, and leaves every record that was
\* in the table as it was.
C10_CreateSessionNoCollision ==
    [][\A u \in Uuids : CallCreateSession(u) =>
        /\ calls'[Len(calls')].result \notin DOMAIN sessions
        /\ \A k \in DOMAIN sessions : sessions'[k] = sessions[k]
      ]_vars

\* the result of the call the last step made on the registry
LastResult == calls'[Len(calls')].result

\* C11: add_sharer, add_viewer and send_to_sharer called with a code that
\* has no session return false, broadcast_to_viewers returns; each of the
\* four calls returns, enqueues nothing and leaves the table as it was.
C11_MissingSessionIsNoOp ==
    [][\A k \in Codes : k \notin DOMAIN sessions =>
        /\ \A h \in Conns :
              (CallAddSharer(k, h) \/ CallAddViewer(k, h)) =>
                  (LastResult = FALSE /\ sessions' = sessions /\ queue' = queue)
        /\ CallSendToSharer(k) =>
              (LastResult = FALSE /\ sessions' = sessions /\ queue' = queue)
        /\ CallBroadcastToViewers(k) =>
              (LastResult = "unit" /\ sessions' = sessions /\ queue' = queue)
      ]_vars

\* C11 witness: Code1 has a session with a sharer and a viewer, Code2 has
\* none, and a call for Code2 has returned false
C11_Witness ==
    /\ DOMAIN sessions = {Code1}
    /\ sessions[Code1].sharer # NoHandle
    /\ sessions[Code1].viewers # <<>>
    /\ calls # <<>>
    /\ calls[Len(calls)].op = "send_to_sharer"
    /\ calls[Len(calls)].result = FALSE
    /\ \A c \in Conns : queue[c] = <<>>

\* connection h's pump has terminated and its delivery queue is closed
Disconnected(h) == spc[h] = "done" /\ ~rxopen[h]

\* connection c takes a step that calls send_to_sharer for code k: the
\* viewer-joined notification, an Answer, or the candidate of a connection
\* whose recorded role is not sharer
CallsSendToSharer(c, k) ==
    \/ rpc[c] = "notify" /\ sig_msg[c].code = k /\ NotifySharer(c)
    \/ \E f \in AnswerFrames \cup Code2AnswerFrames : f.code = k /\ RecvAnswer(c, f)
    \/ \E f \in IceFrames :
          f.code = k /\ role[c] \notin {Null, "sharer"} /\ RecvIceCandidate(c, f)

\* C12: once the connection in the sharer slot of a session has
\* disconnected, a send_to_sharer call for that session returns false and
\* enqueues nothing, and the inbound loop of the connection that made the
\* call keeps running.
C12_SendToDeadSharerReturnsFalse ==
    [][\A c \in Conns : \A k \in Codes : \A h \in Conns :
        (IsSharerOf(h, k) /\ Disconnected(h) /\ CallsSendToSharer(c, k)) =>
            /\ ~SendToSharerResult(k)
            /\ queue' = queue
            /\ enq' = enq
            /\ rpc'[c] # "done"
      ]_vars

\* C12 witness: the sharer of Code1 has disconnected; a viewer then joined,
\* the sharer's log has no notification from it, and the viewer's loop is
\* waiting for its next frame
C12_Witness ==
    \E h \in Conns : \E c \in Conns \ {h} :
        /\ IsSharerOf(h, Code1) /\ Disconnected(h)
        /\ JoinedAsViewer(c) /\ hist[c].msg.code = Code1 /\ Handled(c)
        /\ \A i \in 1..Len(enq[h]) : enq[h][i].from # c
        /\ InSeq(Entry(JoinedText(Code1, "viewer"), "own", c), enq[c])

\* what a broadcast of text to the viewers of code k does to the queues:
\* one copy per occurrence of a connection in the viewer list when the
\* connection's queue is open, nothing otherwise
BroadcastDelivered(k, text) ==
    \A v \in Conns :
        queue'[v] = queue[v] \o Repeat(text, IF rxopen[v] THEN Count(v, ViewersOf(k)) ELSE 0)

\* C13: a broadcast (the Offer arm's, or the IceCandidate arm's for a
\* connection recorded as sharer) enqueues the message to every handle of
\* the viewer list whose queue is open, wherever the handles of closed
\* queues stand in the list, and the handler goes on to its next frame.
C13_BroadcastSkipsDeadHandles ==
    [][\A c \in Conns :
        /\ (rpc[c] = "broadcast" /\ BroadcastOffer(c)) =>
              /\ BroadcastDelivered(sig_msg[c].code, ToJson(sig_msg[c]))
              /\ rpc'[c] = "next"
        /\ \A f \in IceFrames :
              (role[c] = "sharer" /\ RecvIceCandidate(c, f)) =>
                  /\ BroadcastDelivered(f.code, IceText(f))
                  /\ rpc'[c] = "next"
      ]_vars

\* C13 witness: the viewer list of Code1 has a connection whose queue is
\* closed in front of one whose queue is open; an offer broadcast by a
\* third connection is in the log of the second and not of the first
C13_Witness ==
    \E d \in Conns : \E v \in Conns \ {d} : \E c \in Conns \ {d, v} :
        /\ ViewersOf(Code1) = <<d, v>>
        /\ ~rxopen[d] /\ rxopen[v]
        /\ SentOffer(c) /\ hist[c].msg.code = Code1 /\ Handled(c)
        /\ InSeq(Entry(ToJson(hist[c].msg), "viewer", c), enq[v])
        /\ \A i \in 1..Len(enq[d]) : enq[d][i].from # c

\* the entries the step under way appends to connection h's log
NewEntries(h) == SubSeq(enq'[h], Len(enq[h]) + 1, Len(enq'[h]))

\* C14: a session has at most one sharer handle and the last successful
\* sharer Join holds it: the Join puts the joining connection in the slot,
\* whoever was there, without enqueueing anything to anyone; and whatever a
\* later step sends through send_to_sharer (an Answer, a viewer's candidate,
\* a viewer-joined notification) goes to the connection in the slot only.
C14_LastSharerJoinWins ==
    /\ [][/\ \A c \in Conns : \A f \in JoinFrames :
               (f.role = "sharer" /\ HasSession(f.code) /\ RecvJoin(c, f)) =>
                   /\ sessions'[f.code].sharer = c
                   /\ enq' = enq
                   /\ queue' = queue
          /\ \A h \in Conns : \A i \in 1..Len(NewEntries(h)) :
               NewEntries(h)[i].via = "sharer" =>
                   IsSharerOf(h, NewEntries(h)[i].text.code)
        ]_vars
    /\ [](\A k \in Codes : Len(SharerHandles(k)) <= 1)

\* C14 witness: a joined as sharer of Code1, then b did, then a viewer joined
\* and answered; the notification and the answer are in b's log, and a's log
\* holds its own acknowledgment and nothing else
C14_Witness ==
    \E a \in Conns : \E b \in Conns \ {a} : \E v \in Conns \ {a, b} :
        /\ \A x \in {a, b} : /\ hist[x].kind = "Join"
                             /\ hist[x].msg.role = "sharer"
                             /\ hist[x].msg.code = Code1
        /\ hist[a].left > hist[b].left
        /\ JoinedAsViewer(v) /\ hist[v].msg.code = Code1
        /\ hist[b].left > hist[v].left
        /\ IsSharerOf(b, Code1)
        /\ InSeq(Entry(ToJson([variant |-> "ViewerJoined", code |-> Code1]), "sharer", v),
                 enq[b])
        /\ \E f \in AnswerFrames : InSeq(Entry(AnswerText(f), "sharer", v), enq[b])
        /\ enq[a] = <<Entry(JoinedText(Code1, "sharer"), "own", a)>>

\* C15: a session caches at most one offer, the one of the Offer handled
\* last, whether or not the session has viewers: the Offer arm overwrites
\* the cache with the message it read and changes nothing else in the
\* table; the viewer arm serializes the offer cached when it looks, and
\* sends that one text, once, to the joining viewer.
C15_OnlyLatestOfferCached ==
    /\ [][\A c \in Conns :
            /\ \A f \in OfferFrames \cup OfferExtraFrames :
                  (HasSession(f.code) /\ RecvOffer(c, f)) =>
                      sessions' = [sessions EXCEPT ![f.code].pending_offer = ParseMsg(f)]
            /\ (rpc[c] = "check" /\ CheckPendingOffer(c)) =>
                  IF PendingOffer(sig_msg[c].code) = NoMsg
                  THEN rpc'[c] = "next" /\ NewEntries(c) = <<>>
                  ELSE msg_str'[c] = ToJson(PendingOffer(sig_msg[c].code))
            /\ (rpc[c] = "replay" /\ ReplayOffer(c)) =>
                  /\ NewEntries(c) = <<Entry(msg_str[c], "own", c)>>
                  /\ rpc'[c] = "next"
        ]_vars
    /\ [](\A s \in Conns : \A k \in Codes :
            (/\ SentOffer(s) /\ hist[s].msg.code = k /\ HasSession(k)
             /\ nstored[k] = hist[s].nstored + 1) => PendingOffer(k) = hist[s].msg)

\* C15 witness: an offer sdpA was cached for Code1, then connection s had
\* its offer sdpB handled, then a viewer joined: since its Join the viewer
\* was sent the acknowledgment and the offer sdpB, nothing else
C15_Witness ==
    \E s \in Conns : \E v \in Conns \ {s} :
        /\ SentOffer(s) /\ hist[s].msg.code = Code1 /\ hist[s].msg.sdp = "sdpB"
        /\ hist[s].pend # NoMsg /\ hist[s].pend.sdp = "sdpA"
        /\ JoinedAsViewer(v) /\ hist[v].msg.code = Code1 /\ Handled(v)
        /\ hist[s].left > hist[v].left
        /\ hist[v].pend = hist[s].msg
        /\ Since(v) = <<Entry(JoinedText(Code1, "viewer"), "own", v),
                        Entry(ToJson(hist[s].msg), "own", v)>>

\* task t has called a registry operation and waits in Mutex::lock, the
\* guard being held by another task
Blocked(t) == inop[t] # NoOp /\ mutex \notin {NoHandle, t}

\* C16: a task that has started a registry operation on one session never
\* waits for a task that is inside a registry operation on a different
\* session.
C16_OtherSessionsDoNotBlock ==
    \A t \in Conns : Blocked(t) => inop[mutex].code = inop[t].code

\* the texts of a sequence of log entries
Texts(sq) == [i \in 1..Len(sq) |-> sq[i].text]

\* C17: what has been written to a connection's transport is, text for
\* text and in the same order, the beginning of what the handlers enqueued
\* to the connection; while the outbound loop runs, what is written followed
\* by what waits in the queue is everything that was enqueued: nothing is
\* reordered, duplicated or lost by the queue.
C17_WrittenInHandledOrder ==
    \A c \in Conns :
        /\ Len(wire[c]) <= Len(enq[c])
        /\ wire[c] = SubSeq(Texts(enq[c]), 1, Len(wire[c]))
        /\ spc[c] = "recv" => wire[c] \o queue[c] = Texts(enq[c])

\* C17 witness: the sharer of Code1 has been written its acknowledgment,
\* then the notification and the answer that one viewer's loop handled in
\* that order
C17_Witness ==
    \E h \in Conns : \E v \in Conns \ {h} : \E f \in AnswerFrames :
        /\ enq[h] = <<Entry(JoinedText(Code1, "sharer"), "own", h),
                      Entry(ToJson(NotifyMsg(Code1)), "sharer", v),
                      Entry(AnswerText(f), "sharer", v)>>
        /\ wire[h] = Texts(enq[h])

\* one of the two loops of connection c has terminated
LoopEnded(c) == rpc[c] = "done" \/ spc[c] = "done"

\* both loops of connection c are over and handle_websocket_stream has returned
TornDown(c) == rpc[c] = "done" /\ spc[c] = "done" /\ sel[c] = "returned"

\* C18: for every connection, once the inbound loop or the outbound loop has
\* terminated, the other loop is cancelled and the connection handler
\* returns: with the tasks scheduled fairly, both loops are eventually over
\* and the handler has returned.
C18_OneLoopEndsBothEnd == \A c \in Conns : LoopEnded(c) ~> TornDown(c)

\* C18 witness: the only frame read is connection 1's Join, so no Close was
\* read; the write of the acknowledgment failed, which ended the outbound
\* loop, and the select! has cancelled the inbound loop and returned
C18_Witness ==
    /\ seen = 1 /\ budget = MaxFairFrames - 1
    /\ hist[1].kind = "Join"
    /\ wire[1] = <<>> /\ enq[1] # <<>>
    /\ TornDown(1)

\* the item receiver.next() yields when the transport read fails
ReadError == [type |-> "ReadError"]

\* C19: the inbound loop ends when it reads a Close frame and also when the
\* read yields an error; a loop that has ended stays ended and handles
\* nothing more: it changes neither the table nor a queue nor its own
\* recorded code and role.
C19_LoopEndsOnCloseAndReadError ==
    [][\A c \in Conns :
        /\ (CanRead(c) /\ (RecvClose(c) \/ RecvOther(c, ReadError))) => rpc'[c] = "done"
        /\ rpc[c] = "done" =>
              /\ rpc'[c] = "done"
              /\ code'[c] = code[c] /\ role'[c] = role[c] /\ hist'[c] = hist[c]
      ]_vars

\* C20: a text frame that does not decode to a SignalingMessage is
\* discarded: the step that reads it changes neither the session table nor
\* a delivery queue nor the code and role the connection has recorded, and
\* leaves the loop waiting for its next frame.
C20_UndecodableFrameDiscarded ==
    [][\A c \in Conns : \A f \in BadFrames :
        (CanRead(c) /\ RecvUnparseable(c, f)) =>
            /\ sessions' = sessions
            /\ queue' = queue /\ enq' = enq
            /\ code'[c] = code[c] /\ role'[c] = role[c]
            /\ rpc'[c] = "next"
      ]_vars

\* C20 witness: connection 1 joined Code1 as viewer; a frame it sent later,
\* an offer object without sdp, was discarded, and its recorded code and
\* role, its place in the viewer list and its log are those of the Join, and
\* the loop has gone on to read the last frame
C20_Witness ==
    /\ skipped = [conn |-> 1, item |-> [type |-> "offer", code |-> Code1]]
    /\ JoinedAsViewer(1) /\ hist[1].msg.code = Code1
    /\ hist[1].left = MaxItems
    /\ code[1] = Code1 /\ role[1] = "viewer"
    /\ ViewersOf(Code1) = <<1>>
    /\ enq[1] = <<Entry(JoinedText(Code1, "viewer"), "own", 1)>>
    /\ budget = 0 /\ seen = 1 /\ Handled(1)

\* the log entry of the viewer-joined notification that connection c's
\* Join for code k sends
NotifyEntry(k, c) == Entry(ToJson(NotifyMsg(k)), "sharer", c)

\* C21: the viewer arm of a successful Join sends one ViewerJoined carrying
\* the session code through the sharer handle of the session, if the slot
\* is taken, and through no viewer handle; with an empty slot the arm goes
\* on and nothing is enqueued. No other step enqueues a ViewerJoined.
C21_ViewerJoinNotifiesSharerOnce ==
    [][/\ \A c \in Conns :
            (rpc[c] = "notify" /\ NotifySharer(c)) =>
                /\ \A h \in Conns :
                      /\ enq'[h] = IF IsSharerOf(h, sig_msg[c].code) /\ rxopen[h]
                                   THEN Append(enq[h], NotifyEntry(sig_msg[c].code, c))
                                   ELSE enq[h]
                      /\ queue'[h] = IF IsSharerOf(h, sig_msg[c].code) /\ rxopen[h]
                                     THEN Append(queue[h], ToJson(NotifyMsg(sig_msg[c].code)))
                                     ELSE queue[h]
                /\ sessions' = sessions
                /\ rpc'[c] = "check"
       /\ \A h \in Conns : \A i \in 1..Len(NewEntries(h)) :
            NewEntries(h)[i].text.type = "viewer-joined" =>
                \E c \in Conns :
                    /\ rpc[c] = "notify" /\ rpc'[c] = "check"
                    /\ NewEntries(h) = <<NotifyEntry(sig_msg[c].code, c)>>
                    /\ IsSharerOf(h, sig_msg[c].code)
      ]_vars

\* C21 witness: v joined Code1 as viewer when h was its sharer, and h's log
\* holds the one notification of it; w joined Code2, which has no sharer: it
\* is in the viewer list, acknowledged, and no log holds a notification of it
C21_Witness ==
    \E h \in Conns : \E v \in Conns \ {h} : \E w \in Conns \ {h, v} :
        /\ IsSharerOf(h, Code1)
        /\ JoinedAsViewer(v) /\ hist[v].msg.code = Code1 /\ Handled(v)
        /\ Len(SelectSeq(enq[h], LAMBDA e : e = NotifyEntry(Code1, v))) = 1
        /\ \A x \in Conns \ {h} : ~InSeq(NotifyEntry(Code1, v), enq[x])
        /\ HasSession(Code2) /\ sessions[Code2].sharer = NoHandle
        /\ ViewersOf(Code2) = <<w>> /\ Handled(w)
        /\ enq[w] = <<Entry(JoinedText(Code2, "viewer"), "own", w)>>
        /\ \A x \in Conns : \A i \in 1..Len(enq[x]) : enq[x][i].from # w \/ x = w

\* connection c's last Join or Offer was a Join as sharer or viewer that
\* found its session
JoinSucceeded(c) ==
    /\ hist[c].kind = "Join"
    /\ hist[c].msg.role \in {"sharer", "viewer"}
    /\ HasSession(hist[c].msg.code)

\* the log entry of the acknowledgment of connection c's Join
AckEntry(c) == Entry(JoinedText(hist[c].msg.code, hist[c].msg.role), "own", c)

\* C22: a successful Join puts the connection's own handle in the sharer
\* slot, or at the end of the viewer list, of the session its code names,
\* and sends one joined{code, role} acknowledgment through the connection's
\* own handle and nothing to any other connection; of what the handler puts
\* in the connection's own queue the acknowledgment is the first, so for a
\* viewer it precedes the replayed pending offer.
C22_JoinRegistersAndAcknowledges ==
    /\ [][\A c \in Conns :
            /\ \A f \in JoinFrames :
                  (HasSession(f.code) /\ RecvJoin(c, f)) =>
                      /\ sessions' = IF f.role = "sharer"
                                     THEN [sessions EXCEPT ![f.code].sharer = c]
                                     ELSE [sessions EXCEPT ![f.code].viewers = Append(@, c)]
                      /\ rpc'[c] = IF f.role = "sharer" THEN "sharer_ack" ELSE "viewer_ack"
            /\ (rpc[c] \in {"sharer_ack", "viewer_ack"} /\ (SharerAck(c) \/ ViewerAck(c))) =>
                  /\ NewEntries(c) = <<AckEntry(c)>>
                  /\ \A h \in Conns \ {c} : enq'[h] = enq[h]
                  /\ sessions' = sessions
        ]_vars
    /\ [](\A c \in Conns :
            (JoinSucceeded(c) /\ Handled(c)) =>
                LET own == OwnEntries(Since(c)) IN
                /\ own # <<>> /\ own[1] = AckEntry(c)
                /\ Len(SelectSeq(own, LAMBDA e : e = AckEntry(c))) = 1
                /\ \A i \in 2..Len(own) :
                      /\ hist[c].msg.role = "viewer"
                      /\ i = 2
                      /\ own[i].text.type = "offer")

\* C22 witness: h joined Code1 as sharer and was sent its acknowledgment; v
\* joined Code1 as viewer when an offer was cached and was sent its
\* acknowledgment and then the offer
C22_Witness ==
    \E h \in Conns : \E v \in Conns \ {h} :
        /\ JoinSucceeded(h) /\ hist[h].msg.role = "sharer" /\ Handled(h)
        /\ IsSharerOf(h, Code1)
        /\ OwnEntries(enq[h]) = <<AckEntry(h)>>
        /\ JoinSucceeded(v) /\ hist[v].msg.role = "viewer" /\ Handled(v)
        /\ hist[v].msg.code = Code1
        /\ Count(v, ViewersOf(Code1)) = 1
        /\ hist[v].pend # NoMsg
        /\ OwnEntries(Since(v)) = <<AckEntry(v), Entry(ToJson(hist[v].pend), "own", v)>>

\* connection c fails or terminates in the step under way: its read yields
\* a Close frame or an error, a write to its transport fails, or its select!
\* completes and cancels the loop that is left
FailureStep(c) ==
    \/ CanRead(c) /\ (RecvClose(c) \/ RecvOther(c, ReadError))
    \/ spc[c] = "recv" /\ queue[c] # <<>> /\ SendTaskWriteErr(c)
    \/ sel[c] = "waiting" /\ (SelectRecvDone(c) \/ SelectSendDone(c))

\* the step under way changes nothing of the table or of a connection other
\* than c
OthersUntouched(c) ==
    /\ sessions' = sessions
    /\ \A d \in Conns \ {c} :
          /\ rpc'[d] = rpc[d] /\ spc'[d] = spc[d] /\ sel'[d] = sel[d]
          /\ code'[d] = code[d] /\ role'[d] = role[d]
          /\ queue'[d] = queue[d] /\ rxopen'[d] = rxopen[d]
          /\ enq'[d] = enq[d] /\ wire'[d] = wire[d]

\* the part of C23 that is about the other connections: a failure or
\* termination of connection c leaves the table and every other
\* connection's loops and queues as they were
C23_FailureIsIsolated ==
    [][\A c \in Conns : FailureStep(c) => OthersUntouched(c)]_vars

\* the part of C23 that is about the connection itself: the loop that met
\* the Close frame, the read error or the write failure is over
C23_FailureEndsOwnLoop ==
    [][\A c \in Conns :
        /\ (CanRead(c) /\ (RecvClose(c) \/ RecvOther(c, ReadError))) => rpc'[c] = "done"
        /\ (spc[c] = "recv" /\ queue[c] # <<>> /\ SendTaskWriteErr(c)) => spc'[c] = "done"
      ]_vars

\* C23: a read error, a write failure or a Close on one connection
\* terminates that connection's pump and nothing else: the session table and
\* the loops and queues of every other connection are unchanged.
C23_FailureEndsOnlyOwnPump == C23_FailureIsIsolated /\ C23_FailureEndsOwnLoop

\* C24: no handler deadlocks on the registry. A handler holds the guard of
\* the session table exactly between a lock() and the drop that follows it:
\* never where it is about to call lock() (the mutex is not reentrant),
\* never where it awaits its next frame, never where it sends on its own tx;
\* and a handler that waits in lock() eventually gets the guard and then
\* gets back to its await.
C24_NoDeadlockOnRegistry ==
    /\ [](\A c \in Conns : mutex = c <=> rpc[c] \in HoldPoints)
    /\ \A c \in Conns : (rpc[c] \in LockPoints) ~> (mutex = c)
    /\ \A c \in Conns : (rpc[c] # "next") ~> (rpc[c] = "next")

\* C24 witness: the handler of d holds the guard in the Offer arm, between
\* the store and the drop, while the handlers of two other connections wait
\* in lock(), one of them in the viewer arm
C24_Witness ==
    \E d \in Conns : \E c \in Conns \ {d} : \E e \in Conns \ {c, d} :
        /\ mutex = d /\ rpc[d] = "drop_store"
        /\ rpc[c] \in {"notify", "check"}
        /\ rpc[e] \in LockPoints

\* the last call made on the registry was create_session and returned k
JustCreated(k) ==
    /\ calls # <<>>
    /\ calls[Len(calls)].op = "create_session"
    /\ calls[Len(calls)].result = k

\* C25: add_viewer called with the code that create_session has just
\* returned returns true and appends the handle to the viewer list of the
\* session, which has no sharer.
C25_ViewerCanJoinFreshSession ==
    [][\A k \in Codes : \A h \in Conns :
        (JustCreated(k) /\ CallAddViewer(k, h)) =>
            /\ LastResult = TRUE
            /\ sessions[k].sharer = NoHandle
            /\ sessions' = [sessions EXCEPT ![k].viewers = Append(@, h)]
            /\ sessions'[k].viewers = <<h>>
      ]_vars

\* C25 witness: create_session, then add_viewer with the code it returned:
\* true, and the session has one viewer and no sharer
C25_Witness ==
    /\ Len(calls) = 2
    /\ calls[1].op = "create_session"
    /\ calls[2] = [op |-> "add_viewer", result |-> TRUE]
    /\ sessions[calls[1].result].sharer = NoHandle
    /\ Len(sessions[calls[1].result].viewers) = 1

\* C26: sessions are never removed and handles are never taken out of
\* them: in every step a code that is a key of the table stays a key, a
\* sharer slot that is taken stays taken, and the viewer list keeps the
\* handles it has, in their order; a step in which a connection fails or is
\* torn down leaves the table as it is.
C26_SessionsAndHandlesStay ==
    [][/\ \A k \in DOMAIN sessions :
            /\ k \in DOMAIN sessions'
            /\ sessions[k].sharer # NoHandle => sessions'[k].sharer # NoHandle
            /\ Len(sessions'[k].viewers) >= Len(sessions[k].viewers)
            /\ SubSeq(sessions'[k].viewers, 1, Len(sessions[k].viewers)) = sessions[k].viewers
       /\ \A c \in Conns : FailureStep(c) => sessions' = sessions
      ]_vars

\* C26 witness: the sharer and a viewer of Code1 have both been torn down,
\* and the session still holds the handle of each
C26_Witness ==
    \E h \in Conns : \E v \in Conns \ {h} :
        /\ IsSharerOf(h, Code1) /\ TornDown(h)
        /\ Count(v, ViewersOf(Code1)) = 1 /\ TornDown(v)

\* the characters of an uppercase hexadecimal numeral
HexChars == {HexDigit(d) : d \in 0..15}

RECURSIVE HexValue(_)
\* the number an uppercase hexadecimal numeral denotes
HexValue(str) ==
    IF Len(str) = 0 THEN 0
    ELSE 16 * HexValue(SubSeq(str, 1, Len(str) - 1))
         + (CHOOSE d \in 0..15 : HexDigit(d) = SubSeq(str, Len(str), Len(str)))

\* C27: the code create_session returns has exactly 6 characters, each a
\* digit or one of the uppercase letters A..F, and read as a hexadecimal
\* numeral it is the draw reduced modulo 16777216, a value in 0..2^24-1; it
\* is the key under which the session is inserted.
C27_CodeIsSixUpperHexDigits ==
    [][\A u \in Draws :
        CallCreateSession(u) =>
            /\ Len(LastResult) = 6
            /\ \A i \in 1..6 : SubSeq(LastResult, i, i) \in HexChars
            /\ HexValue(LastResult) = u % 16777216
            /\ HexValue(LastResult) \in 0..16777215
            /\ LastResult \in DOMAIN sessions'
            /\ sessions'[LastResult].code = LastResult
      ]_vars

\* C27 witness: the draws 10, 11259375 and 16777226 have returned "00000A",
\* "ABCDEF" and again "00000A"
C27_Witness ==
    /\ Len(calls) = 3
    /\ calls[1] = [op |-> "create_session", result |-> "00000A"]
    /\ calls[2] = [op |-> "create_session", result |-> "ABCDEF"]
    /\ calls[3] = [op |-> "create_session", result |-> "00000A"]
    /\ DOMAIN sessions = {"00000A", "ABCDEF"}

\* the entries of connection v's log that carry an offer for code k
OffersLogged(v, k) ==
    SelectSeq(enq[v], LAMBDA e : e.text.type = "offer" /\ e.text.code = k)

\* C28: a connection that is once in the viewer list of a session whose
\* sharer has had one Offer handled, the only Offer ever stored for the
\* session, has been enqueued that Offer at most once, however the steps of
\* its Join and of the Offer were interleaved.
C28_OfferDeliveredAtMostOnce ==
    \A v \in Conns : \A s \in Conns \ {v} : \A k \in Codes :
        (/\ Count(v, ViewersOf(k)) = 1
         /\ IsSharerOf(s, k) /\ SentOffer(s) /\ hist[s].msg.code = k
         /\ nstored[k] = 1)
        => Len(OffersLogged(v, k)) <= 1

\* C29: the joined acknowledgment is the first message enqueued to a
\* joining viewer: of what has been enqueued to a connection since its Join
\* as viewer was read, the connection being once in the viewer list, the
\* first entry is the acknowledgment of that Join.
C29_AckIsFirstForViewer ==
    \A v \in Conns :
        (/\ JoinedAsViewer(v)
         /\ Count(v, ViewersOf(hist[v].msg.code)) = 1
         /\ Since(v) # <<>>)
        => Since(v)[1] = AckEntry(v)

\* the handle of connection c is in the sharer slot or in the viewer list
\* of the session of code k
Attached(c, k) == IsSharerOf(c, k) \/ Count(c, ViewersOf(k)) > 0

\* connection c is attached to the session of code a and to no other
AttachedOnlyTo(c, a) == \A k \in Codes : Attached(c, k) <=> k = a

\* C30: a connection relays only into the session it joined. While c is
\* attached to session a and to no other, an Offer read from c changes the
\* pending offer of no other session, and an Offer, Answer or IceCandidate
\* relayed for c is enqueued only to connections attached to a, whatever
\* code the message carries.
C30_RelayStaysInJoinedSession ==
    [][\A c \in Conns : \A a \in Codes :
        AttachedOnlyTo(c, a) =>
            /\ \A f \in OfferFrames \cup OfferExtraFrames :
                  (CanRead(c) /\ RecvOffer(c, f)) =>
                      \A b \in DOMAIN sessions \ {a} :
                          sessions'[b].pending_offer = sessions[b].pending_offer
            /\ \A h \in Conns : \A i \in 1..Len(NewEntries(h)) :
                  (/\ NewEntries(h)[i].from = c
                   /\ NewEntries(h)[i].text.type \in {"offer", "answer", "ice-candidate"}
                   /\ NewEntries(h)[i].via \in {"sharer", "viewer"})
                  => Attached(h, a)
      ]_vars

\* C31: the pending offer of a session is set only by the connection that
\* is in the session's sharer slot: an Offer read from any other connection
\* (a viewer, a connection that never joined) leaves the table as it is and
\* is broadcast to nobody.
C31_OnlySharerSetsPendingOffer ==
    [][\A c \in Conns :
        /\ \A f \in OfferFrames \cup OfferExtraFrames :
              (CanRead(c) /\ ~IsSharerOf(c, f.code) /\ RecvOffer(c, f)) =>
                  sessions' = sessions
        /\ (rpc[c] = "broadcast" /\ ~IsSharerOf(c, sig_msg[c].code) /\ BroadcastOffer(c)) =>
              enq' = enq
      ]_vars

\* C32: the handle of a connection is at most once in the viewer list of a
\* session, whatever Joins the connection has sent, and a broadcast
\* enqueues at most one copy of its message to any one connection.
C32_ViewerListedOnce ==
    /\ [](\A k \in Codes : \A c \in Conns : Count(c, ViewersOf(k)) <= 1)
    /\ [][\A h \in Conns : \A i, j \in 1..Len(NewEntries(h)) :
            (NewEntries(h)[i].via = "viewer" /\ NewEntries(h)[j].via = "viewer") => i = j
         ]_vars

\* C33: when every Join read so far has been handled, the sharer attached
\* to a session has been sent a ViewerJoined for every viewer of the viewer
\* list of the session, also for the viewers that were in the list before
\* the sharer attached.
C33_SharerKnowsEveryViewer ==
    (\A c \in Conns : Handled(c)) =>
        \A k \in Codes : \A h, v \in Conns :
            (IsSharerOf(h, k) /\ ~Disconnected(h) /\ InSeq(v, ViewersOf(k))) =>
                InSeq(NotifyEntry(k, v), enq[h])

\* where the IceCandidate arm sends the candidate of a connection whose
\* recorded role is r
IceRoute(r) == IF r = Null THEN "nobody" ELSE IF r = "sharer" THEN "viewers" ELSE "sharer"

\* C34: a Join whose role is neither "sharer" nor "viewer" is ignored: it
\* changes no session, enqueues nothing, and the candidates the connection
\* sends afterwards are routed as they were before it.
C34_OtherRoleJoinIgnored ==
    [][\A c \in Conns : \A f \in OtherRoleFrames :
          (CanRead(c) /\ RecvJoin(c, f)) =>
              /\ sessions' = sessions
              /\ queue' = queue
              /\ enq' = enq
              /\ IceRoute(role'[c]) = IceRoute(role[c])
      ]_vars

\* C35: an Error or a ViewerJoined read from a client is a no-op: it is
\* enqueued to nobody and leaves the session table, every queue and the
\* code and role of every connection as they were.
C35_ClientErrorAndViewerJoinedAreNoops ==
    [][\A c \in Conns : \A f \in ErrorFrames \cup ViewerJoinedFrames :
          (CanRead(c) /\ RecvNoop(c, f)) =>
              /\ sessions' = sessions
              /\ queue' = queue
              /\ enq' = enq
              /\ code' = code
              /\ role' = role
      ]_vars

\* the last item dropped was a ViewerJoined read from a client, naming a
\* session that has a sharer and a viewer attached
C35_Witness ==
    /\ skipped.item \in ViewerJoinedFrames
    /\ \E h \in Conns : IsSharerOf(h, skipped.item.code)
    /\ ViewersOf(skipped.item.code) # <<>>

\* call t of start_signaling_server_cmd has returned
Returns(t) == starter[t].pc = "done"

DistinctContents(list) ==
    \A i, j \in 1..Len(list) : list[i].content = list[j].content => i = j

\* C37: a ClipboardDatabase made by new(max_items) holds, after any calls
\* of add_item, update_access, delete_item and clear_all, at most max_items
\* entries, no two with the same content. add_item with a content the list
\* holds inserts nothing: it sets last_accessed of that entry to the
\* created_at of the item and adds one to its access_count; with a new
\* content the item becomes the first entry, in front of the entries that
\* were there (max_items is at least 1, as in new(100)).
C37_ClipboardBoundedAndDeduplicated ==
    /\ [](Constructed => (Len(items) <= max_items /\ DistinctContents(items)))
    /\ [][\A id \in Ids : \A content \in Contents : \A t \in Times :
            (Constructed /\ DbAddItem(id, content, t)) =>
                LET i == FindContent(items, content) IN
                IF i > 0
                THEN /\ Len(items') = Len(items)
                     /\ \A j \in 1..Len(items) : j # i => items'[j] = items[j]
                     /\ items'[i] = [items[i] EXCEPT !.last_accessed = t,
                                                     !.access_count = items[i].access_count + 1]
                ELSE /\ items'[1] = ClipboardItem(id, content, t)
                     /\ \A j \in 2..Len(items') : items'[j] = items[j - 1]
                     /\ Len(items') = (IF Len(items) < max_items THEN Len(items) + 1
                                       ELSE max_items)
         ]_vars

\* the last call was add_item with the content of the second entry of a
\* full list: the entry stays second and has been touched
C37_Witness ==
    /\ dbop.name = "add_item"
    /\ dbop.found = 2
    /\ Len(items) = max_items
    /\ items[2].access_count > 0

====
